---- MODULE Spec2Model ----
(***************************************************************************)
(* Seedless keyword discovery pipeline: the autocomplete enumerator        *)
(* (prefix frontier), the keyword store (sqlite tables written in          *)
(* BEGIN/COMMIT/ROLLBACK batches) and the helpers they share.              *)
(*                                                                         *)
(* Strings are sequences of characters; a character is a short TLA+ string.*)
(* Besides plain letters the character set holds                           *)
(*   "A"    an upper-case letter (toLowerCase gives "a"),                  *)
(*   " "    white space,                                                   *)
(*   "+"    punctuation that is neither letter, digit, "-" nor "'",        *)
(*   "FWA"  U+FF21 FULLWIDTH LATIN CAPITAL LETTER A (NFKC gives "A").      *)
(***************************************************************************)
EXTENDS Integers, Sequences, FiniteSets, TLC

(***************************************************************************)
(* Bounds of the model                                                     *)
(***************************************************************************)
MaxBudget == 2
MaxResp == 2
MaxBatch == 2
MaxCalls == 2
MaxListings == 4
MaxSeries == 3

(***************************************************************************)
(* Characters and strings                                                  *)
(***************************************************************************)
Null == <<"NULL">>

LowerLetters == {"a", "b", "c", "d", "e", "f", "g", "h", "i", "j", "k", "l", "m",
                 "n", "o", "p", "q", "r", "s", "t", "u", "v", "w", "x", "y", "z"}

IsSpace(c) == c = " "

\* \p{L} or \p{N}: letters, the fullwidth A (FWA), digits, the fraction one
\* half (HALF, U+00BD)
IsLetter(c) == c \in LowerLetters \cup {"A", "FWA", "1", "2", "HALF"}

LowerChar(c) == IF c = "A" THEN "a" ELSE c

\* The compatibility decomposition of one character: the fullwidth A is A,
\* one half is 1, fraction slash (FSLASH, U+2044), 2, and the diaeresis
\* (DIA, U+00A8) is a space and the combining diaeresis (COMB, U+0308).
NfkcChar(c) ==
    IF c = "FWA" THEN <<"A">>
    ELSE IF c = "HALF" THEN <<"1", "FSLASH", "2">>
    ELSE IF c = "DIA" THEN <<" ", "COMB">>
    ELSE <<c>>

RECURSIVE Nfkc(_)
Nfkc(s) == IF s = <<>> THEN <<>> ELSE NfkcChar(Head(s)) \o Nfkc(Tail(s))

ToLowerCase(s) == [i \in 1..Len(s) |-> LowerChar(s[i])]

RECURSIVE TrimStart(_)
TrimStart(s) == IF s # <<>> /\ IsSpace(Head(s)) THEN TrimStart(Tail(s)) ELSE s

RECURSIVE TrimEnd(_)
TrimEnd(s) ==
    IF s # <<>> /\ IsSpace(s[Len(s)]) THEN TrimEnd(SubSeq(s, 1, Len(s) - 1)) ELSE s

Trim(s) == TrimEnd(TrimStart(s))

\* s.replace(/\s+/g, ' ')
RECURSIVE CollapseSpaces(_)
CollapseSpaces(s) ==
    IF s = <<>> THEN <<>>
    ELSE IF IsSpace(Head(s))
         THEN <<" ">> \o CollapseSpaces(TrimStart(s))
         ELSE <<Head(s)>> \o CollapseSpaces(Tail(s))

sanitizeKeyword(raw) ==
    LET trimmed == Trim(raw)
        collapsed == CollapseSpaces(trimmed)
        normalized == ToLowerCase(Nfkc(collapsed))
    IN  IF trimmed = <<>> THEN Null
        ELSE IF Len(normalized) >= 2 THEN normalized ELSE Null

normalizeWhitespace(value) == Trim(CollapseSpaces(value))

\* value.replace(/[^\p{L}\p{N}\s\-']/gu, ' ')
ReplaceNonWord(s) ==
    [i \in 1..Len(s) |->
        IF IsLetter(s[i]) \/ IsSpace(s[i]) \/ s[i] \in {"-", "'"} THEN s[i] ELSE " "]

normalizeKeyword(value) ==
    LET trimmed == normalizeWhitespace(value)
        cleaned == ReplaceNonWord(trimmed)
        collapsed == normalizeWhitespace(cleaned)
        normalized == ToLowerCase(Nfkc(collapsed))
    IN  IF trimmed = <<>> THEN Null
        ELSE IF collapsed = <<>> THEN Null
        ELSE IF Len(normalized) < 2 THEN Null
        ELSE normalized

Max(a, b) == IF a >= b THEN a ELSE b

RECURSIVE SeqToSet(_)
SeqToSet(s) == IF s = <<>> THEN {} ELSE {Head(s)} \cup SeqToSet(Tail(s))

(***************************************************************************)
(* Inputs of the model                                                     *)
(***************************************************************************)
SourceNames == {"etsy", "google"}

\* Raw suggestion texts a source may return.
RawKeywords == { <<" ", "A", "b">>, <<"a", "+">>, <<"b">> }

\* A response is an ordered list of raw suggestion texts.
Responses == UNION { [1..n -> RawKeywords] : n \in 0..MaxResp }

Alphabets == { << <<"a">>, <<"b">> >> }

InitialPrefixLists == { <<>>, << <<"a">>, <<"A", " ">> >> }

ConfigSpace ==
    [ discovery_budget : 1..MaxBudget,
      max_depth : {1, 2},
      min_suggestions_to_expand : {1, 2},
      alphabet : Alphabets,
      initial_prefixes : InitialPrefixLists,
      include_sources : [SourceNames -> BOOLEAN],
      sleep_between_requests_ms : {0, 1} ]

\* Runs with both sources enabled are explored at depth 1, without delay,
\* from the alphabet and with the smallest expansion threshold; runs with a
\* delay are explored at depth 1; all other runs are explored in full.
Configs ==
    { c \in ConfigSpace :
        /\ (c.include_sources["etsy"] /\ c.include_sources["google"])
               => /\ c.max_depth = 1
                  /\ c.sleep_between_requests_ms = 0
                  /\ c.min_suggestions_to_expand = 1
                  /\ c.initial_prefixes = <<>>
        /\ (c.sleep_between_requests_ms = 1) => (c.max_depth = 1) }

DefaultAlphabet ==
    << <<"a">>, <<"b">>, <<"c">>, <<"d">>, <<"e">>, <<"f">>, <<"g">>, <<"h">>, <<"i">>,
       <<"j">>, <<"k">>, <<"l">>, <<"m">>, <<"n">>, <<"o">>, <<"p">>, <<"q">>, <<"r">>,
       <<"s">>, <<"t">>, <<"u">>, <<"v">>, <<"w">>, <<"x">>, <<"y">>, <<"z">> >>

(***************************************************************************)
(* State                                                                   *)
(***************************************************************************)
VARIABLES
    cfg,                   \* settings read by the run
    pc,                    \* position of AutocompleteEnumerator.run
    sources,               \* sources created by buildSources, in order
    queue, visited,        \* prefix frontier
    uniqueKeywords, sourceBreakdown, totalPersisted, processedPrefixes,
    persistedCombinations,
    prefix, prefixSuggestions, prefixUnique, perSourceSeen,
    srcIdx,                \* index of the source being queried for prefix
    pending,               \* suggestions of the current response not yet looked at
    pendingError,          \* a fault is propagating out of the try block
    disposeCalls,          \* number of dispose() calls per source
    result,                \* what run() settled with
    db,                    \* committed tables of the sqlite database
    tx,                    \* tables as seen inside the open transaction
    txQueue,               \* rows of the running batch not yet written
    clock,                 \* Date.now()
    call,                  \* the batch write a caller of the Store is waiting for
    enqueued, dequeued,    \* history: prefixes pushed to / shifted from queue
    fetchLog,              \* history: (source, prefix) pairs fetched
    accepted,              \* history: suggestions pushed to prefixSuggestions
    overBudget,            \* history: some phrase was dropped by the budget rule
    faultAt,               \* history: index in fetchLog of the first fetch that threw
    storeFault,            \* history: a statement of a store batch has failed
    scorer,                \* OpportunityScorer.compute: position, locals, outcome
    stub,                  \* what a stub source answers, by prefix (scenario runs)
    calc,                  \* a call of a pure helper: its arguments and what it returned
    pipe,                  \* bootstrap: the stage of the pipeline run and its locals
    fetch,                 \* one fetchSuggestions call of a source: position, locals, outcome
    serp                   \* one fetchKeyword call and the save of its result

vars == << cfg, pc, sources, queue, visited, uniqueKeywords, sourceBreakdown,
           totalPersisted, processedPrefixes, persistedCombinations, prefix,
           prefixSuggestions, prefixUnique, perSourceSeen, srcIdx, pending,
           pendingError, disposeCalls, result, db, tx, txQueue, clock, call,
           enqueued, dequeued, fetchLog, accepted, overBudget, faultAt,
           storeFault, scorer, stub, calc, pipe, fetch,
           serp >>

runVars == << sources, queue, visited, uniqueKeywords, sourceBreakdown,
              totalPersisted, processedPrefixes, persistedCombinations, prefix,
              prefixSuggestions, prefixUnique, perSourceSeen, srcIdx, pending,
              pendingError, disposeCalls, result >>

storeVars == << db, tx, txQueue, clock, call >>

histVars == << enqueued, dequeued, fetchLog, accepted, overBudget, faultAt, storeFault >>

NoTx == [open |-> FALSE]
NoResult == [status |-> "pending"]
NoPrefix == <<>>

EmptyDb ==
    [ keywords |-> {},
      autocomplete_suggestions |-> {},
      harvested_keywords |-> {},
      prefiltered_keywords |-> {},
      serp_cache |-> {},
      listings |-> {},
      search_results_metadata |-> {},
      keyword_listing_metrics |-> {},
      trends_cache |-> {},
      search_snapshot |-> {} ]

NoCall ==
    [ n |-> 0, op |-> "none", rows |-> <<>>, before |-> EmptyDb, ts |-> 0,
      undone |-> FALSE, outcome |-> [status |-> "none"] ]

ensureSourceBreakdown == [n \in SourceNames |-> 0]

\* The weights of the settings: the documented defaults.
Weights ==
    { [ review_velocity |-> <<1, 1>>, favorites |-> <<1, 2>>, ad_ratio |-> <<4, 5>>,
        dominance |-> <<7, 10>>, price_dispersion |-> <<2, 5>> ] }

\* The sources are the real ones: no stub answers for them.
NoStub == <<>>

\* No helper is being called.
NoCalc == [pc |-> "none"]

\* no pipeline run in progress
NoPipe == [stage |-> "none"]

\* No fetchSuggestions call under way.
NoFetch == [pc |-> "none"]

\* No fetchKeyword call under way.
NoSerp == [pc |-> "none"]

\* No compute() under way.
NoScorer ==
    [ pc |-> "idle", weights |-> CHOOSE w \in Weights : TRUE,
      metadata |-> <<>>, listings |-> <<>>, trends |-> <<>>,
      aggregated |-> <<>>, series |-> <<>>, snapshots |-> <<>>,
      warnings |-> 0, outcome |-> [status |-> "none"] ]

(***************************************************************************)
(* Enumerator helpers                                                      *)
(***************************************************************************)
RECURSIVE initializeQueueFrom(_)
initializeQueueFrom(seeds) ==
    IF seeds = <<>> THEN <<>>
    ELSE LET normalizedSeed == Trim(Head(seeds))
         IN  IF Len(normalizedSeed) = 0
             THEN initializeQueueFrom(Tail(seeds))
             ELSE <<ToLowerCase(normalizedSeed)>> \o initializeQueueFrom(Tail(seeds))

initializeQueue(initialPrefixes, alphabet) ==
    initializeQueueFrom(IF Len(initialPrefixes) > 0 THEN initialPrefixes ELSE alphabet)

EffectiveAlphabet == IF Len(cfg.alphabet) > 0 THEN cfg.alphabet ELSE DefaultAlphabet
budget == cfg.discovery_budget
maxDepth == Max(1, cfg.max_depth)
minSuggestionsToExpand == Max(1, cfg.min_suggestions_to_expand)
delay == Max(0, cfg.sleep_between_requests_ms)

\* lines 467-492: the enabled sources, etsy before google
EnabledSources ==
    (IF cfg.include_sources["etsy"] THEN <<"etsy">> ELSE <<>>) \o
    (IF cfg.include_sources["google"] THEN <<"google">> ELSE <<>>)

\* Slip: the comparison lets one phrase too many through.
BudgetRejectsOffByOne(isNewKeyword, size, limit) == isNewKeyword /\ size > limit

\* Slip: the budget also drops phrases the run already knows.
BudgetRejectsKnownToo(isNewKeyword, size, limit) == size >= limit

\* line 569: a phrase new to the run is dropped once the budget is used up
BudgetRejects(isNewKeyword, size, limit) == isNewKeyword /\ size >= limit

\* Slip: a prefix is expanded whatever the number of suggestions it gave.
ShouldExpandBelowThreshold(p, prefixUniqueSize, uniqueSize) ==
    /\ Len(p) < maxDepth
    /\ uniqueSize < budget

\* Slip: prefixes of length maxDepth are expanded as well.
ShouldExpandTooDeep(p, prefixUniqueSize, uniqueSize) ==
    /\ Len(p) <= maxDepth
    /\ prefixUniqueSize >= minSuggestionsToExpand
    /\ uniqueSize < budget

\* lines 601-605
ShouldExpand(p, prefixUniqueSize, uniqueSize) ==
    /\ Len(p) < maxDepth
    /\ prefixUniqueSize >= minSuggestionsToExpand
    /\ uniqueSize < budget

\* Slip: the loop is never left on budget exhaustion.
BudgetNeverReached(uniqueSize) == FALSE

\* line 620
BudgetReached(uniqueSize) == uniqueSize >= budget

\* lines 606-617: [queue, visited] after the children of p are pushed
RECURSIVE ExpandChildren(_, _, _, _)
ExpandChildren(letters, p, q, v) ==
    IF letters = <<>> THEN [queue |-> q, visited |-> v]
    ELSE LET fragment == ToLowerCase(Trim(Head(letters)))
             candidate == p \o fragment
         IN  IF fragment = <<>> \/ candidate \in v
             THEN ExpandChildren(Tail(letters), p, q, v)
             ELSE ExpandChildren(Tail(letters), p, Append(q, candidate), v \cup {candidate})

ZeroStats ==
    [ totalPrefixesProcessed |-> 0,
      uniqueKeywordsDiscovered |-> 0,
      totalSuggestionsPersisted |-> 0,
      sourceBreakdown |-> ensureSourceBreakdown,
      exhaustedBudget |-> FALSE ]

(***************************************************************************)
(* Initial state: a run about to start on an empty database                *)
(***************************************************************************)
RunInit ==
    /\ sources = <<>>
    /\ queue = <<>>
    /\ visited = {}
    /\ uniqueKeywords = {}
    /\ sourceBreakdown = ensureSourceBreakdown
    /\ totalPersisted = 0
    /\ processedPrefixes = 0
    /\ persistedCombinations = {}
    /\ prefix = NoPrefix
    /\ prefixSuggestions = <<>>
    /\ prefixUnique = {}
    /\ perSourceSeen = [n \in SourceNames |-> {}]
    /\ srcIdx = 0
    /\ pending = <<>>
    /\ pendingError = FALSE
    /\ disposeCalls = [n \in SourceNames |-> 0]
    /\ result = NoResult
    /\ enqueued = <<>>
    /\ dequeued = <<>>
    /\ fetchLog = <<>>
    /\ accepted = {}
    /\ overBudget = FALSE
    /\ faultAt = 0
    /\ storeFault = FALSE

\* A freshly bootstrapped database with no transaction open.
StoreInit ==
    /\ db = EmptyDb
    /\ tx = NoTx
    /\ txQueue = <<>>
    /\ clock = 0
    /\ call = NoCall

Init ==
    /\ cfg \in Configs
    /\ pc = "build"
    /\ RunInit
    /\ StoreInit
    /\ scorer = NoScorer
    /\ stub = NoStub
    /\ calc = NoCalc
    /\ pipe = NoPipe
    /\ fetch = NoFetch
    /\ serp = NoSerp

(***************************************************************************)
(* Numbers: a REAL value is an exact fraction <<numerator, denominator>>   *)
(***************************************************************************)
Abs(n) == IF n < 0 THEN -n ELSE n

RECURSIVE GCD(_, _)
GCD(a, b) == IF b = 0 THEN a ELSE GCD(b, a % b)

\* n / d in lowest terms with a positive denominator (d # 0)
Frac(n, d) ==
    LET g == GCD(Abs(n), Abs(d))
        s == IF d < 0 THEN -1 ELSE 1
    IN  << (s * n) \div g, (s * d) \div g >>

FracAdd(a, b) == Frac(a[1] * b[2] + b[1] * a[2], a[2] * b[2])
FracSub(a, b) == Frac(a[1] * b[2] - b[1] * a[2], a[2] * b[2])
FracMul(a, b) == Frac(a[1] * b[1], a[2] * b[2])
FracDiv(a, b) == Frac(a[1] * b[2], a[2] * b[1])
FracLeq(a, b) == a[1] * b[2] <= b[1] * a[2]
Floor(a) == a[1] \div a[2]
Ceil(a) == -((-a[1]) \div a[2])

\* [...values].sort((a, b) => a - b)
RECURSIVE InsertSorted(_, _)
InsertSorted(x, sorted) ==
    IF sorted = <<>> THEN <<x>>
    ELSE IF FracLeq(x, Head(sorted)) THEN <<x>> \o sorted
    ELSE <<Head(sorted)>> \o InsertSorted(x, Tail(sorted))

RECURSIVE SortAscending(_)
SortAscending(values) ==
    IF values = <<>> THEN <<>>
    ELSE InsertSorted(Head(values), SortAscending(Tail(values)))

median(values) ==
    IF Len(values) = 0 THEN Null
    ELSE LET sorted == SortAscending(values)
             mid == Len(sorted) \div 2
         IN  IF Len(sorted) % 2 = 0
             THEN FracDiv(FracAdd(sorted[mid], sorted[mid + 1]), <<2, 1>>)
             ELSE sorted[mid + 1]

percentile(values, percentileValue) ==
    IF Len(values) = 0 THEN Null
    ELSE LET sorted == SortAscending(values)
             rank == Frac(percentileValue * (Len(sorted) - 1), 100)
             lowerIndex == Floor(rank)
             upperIndex == Ceil(rank)
             weight == FracSub(rank, <<lowerIndex, 1>>)
         IN  IF lowerIndex = upperIndex THEN sorted[lowerIndex + 1]
             ELSE FracAdd(FracMul(sorted[lowerIndex + 1], FracSub(<<1, 1>>, weight)),
                          FracMul(sorted[upperIndex + 1], weight))

iqr(values) ==
    IF Len(values) < 2 THEN Null
    ELSE LET q1 == percentile(values, 25)
             q3 == percentile(values, 75)
         IN  IF q1 = Null \/ q3 = Null THEN Null ELSE FracSub(q3, q1)

(***************************************************************************)
(* KeywordStore: values derived from a search result                       *)
(***************************************************************************)
\* listing.shop?.toLowerCase().trim()
ShopKey(listing) ==
    IF listing.shop = Null THEN Null ELSE Trim(ToLowerCase(listing.shop))

\* Slip: the shares are summed without being squared.
RECURSIVE SumOfShares(_, _, _)
SumOfShares(shops, listings, total) ==
    IF shops = {} THEN <<0, 1>>
    ELSE LET shop == CHOOSE x \in shops : TRUE
             value == Cardinality({i \in 1..Len(listings) : ShopKey(listings[i]) = shop})
         IN  FracAdd(Frac(value, total), SumOfShares(shops \ {shop}, listings, total))

RECURSIVE SumOfSquaredShares(_, _, _)
SumOfSquaredShares(shops, listings, total) ==
    IF shops = {} THEN <<0, 1>>
    ELSE LET shop == CHOOSE x \in shops : TRUE
             value == Cardinality({i \in 1..Len(listings) : ShopKey(listings[i]) = shop})
             share == Frac(value, total)
         IN  FracAdd(FracMul(share, share),
                     SumOfSquaredShares(shops \ {shop}, listings, total))

computeDominanceIndex(listings) ==
    IF Len(listings) = 0 THEN Null
    ELSE LET shops == {ShopKey(listings[i]) : i \in 1..Len(listings)} \ {Null, <<>>}
         IN  IF shops = {} THEN Null
             ELSE SumOfSquaredShares(shops, listings, Len(listings))

IsPriced(listing) == listing.price # Null

computePriceStats(listings) ==
    LET priced == SelectSeq(listings, IsPriced)
        prices == [i \in 1..Len(priced) |-> priced[i].price]
        med == median(prices)
        spread == iqr(prices)
    IN  IF Len(prices) = 0 THEN [median |-> Null, dispersion |-> Null]
        ELSE IF med = Null \/ med = <<0, 1>> THEN [median |-> med, dispersion |-> Null]
        ELSE IF spread = Null THEN [median |-> med, dispersion |-> Null]
        ELSE [median |-> med, dispersion |-> FracDiv(spread, med)]

\* JSON.stringify; undefined is stored as NULL
toJson(value) == IF value = Null THEN Null ELSE <<"json">> \o value

\* toJson of a value whose type has no undefined: the text of the value
toJsonObject(value) == <<"json", value>>

Digits == <<"0", "1", "2", "3", "4", "5", "6", "7", "8", "9">>

DigitValue(c) == CHOOSE d \in 0..9 : Digits[d + 1] = c

RECURSIVE ParseDigits(_, _)
ParseDigits(s, acc) ==
    IF s = <<>> \/ Head(s) \notin SeqToSet(Digits) THEN acc
    ELSE ParseDigits(Tail(s), acc * 10 + DigitValue(Head(s)))

\* Number.parseInt(pageStr, 10)
parseInt(pageStr) ==
    LET body == TrimStart(pageStr)
        NaN == [isNaN |-> TRUE, value |-> 0]
    IN  IF body # <<>> /\ Head(body) \in SeqToSet(Digits)
        THEN [isNaN |-> FALSE, value |-> ParseDigits(body, 0)]
        ELSE IF Len(body) > 1 /\ Head(body) = "-" /\ body[2] \in SeqToSet(Digits)
        THEN [isNaN |-> FALSE, value |-> -ParseDigits(Tail(body), 0)]
        ELSE IF Len(body) > 1 /\ Head(body) = "+" /\ body[2] \in SeqToSet(Digits)
        THEN [isNaN |-> FALSE, value |-> ParseDigits(Tail(body), 0)]
        ELSE NaN

(***************************************************************************)
(* KeywordStore: SQL statements                                            *)
(***************************************************************************)
\* A statement names its table, the columns of the table's primary key, the
\* row it carries and, for an upsert, the columns DO UPDATE SET overwrites.
Conflicts(tables, statement) ==
    {r \in tables[statement.table] :
        \A c \in statement.key : r[c] = statement.row[c]}

\* A plain INSERT hits the primary key constraint.
Fails(tables, statement) ==
    statement.mode = "insert" /\ Conflicts(tables, statement) # {}

\* this.run(sql, params) on the tables a transaction sees
Exec(tables, statement) ==
    LET hit == Conflicts(tables, statement)
    IN  [tables EXCEPT ![statement.table] =
            IF statement.mode = "delete" THEN @ \ hit
            ELSE IF hit = {} THEN @ \cup {statement.row}
            ELSE (@ \ hit) \cup
                 {[c \in DOMAIN r |-> IF c \in statement.update
                                      THEN statement.row[c] ELSE r[c]] : r \in hit}]

RECURSIVE ExecAll(_, _)
ExecAll(tables, statements) ==
    IF statements = <<>> THEN tables
    ELSE ExecAll(Exec(tables, Head(statements)), Tail(statements))

\* Index of the first statement the database itself refuses, 0 if there is none.
RECURSIVE FirstFailureFrom(_, _, _)
FirstFailureFrom(tables, statements, k) ==
    IF k > Len(statements) THEN 0
    ELSE IF Fails(tables, statements[k]) THEN k
    ELSE FirstFailureFrom(Exec(tables, statements[k]), statements, k + 1)

FirstFailure(tables, statements) == FirstFailureFrom(tables, statements, 1)

\* The statements at which the iteration can end in a fault: any statement up
\* to the first one the database refuses (the disk or the lock can fail any).
FaultPoints(tables, statements) ==
    LET first == FirstFailure(tables, statements)
    IN  IF first = 0 THEN 1..Len(statements) ELSE 1..first

\* sha1 of `${source}:${keyword}`
hashKeyword(source, keyword) == <<"sha1", source, ":">> \o keyword

\* Slip: on conflict the first-seen time is overwritten as well.
KeywordStatementResetsFirstSeen(keyword, source, timestamp) ==
    [ mode |-> "upsert", table |-> "keywords",
      key |-> {"keyword", "source"}, update |-> {"first_seen_ts", "last_seen_ts"},
      row |-> [ seedless_id |-> hashKeyword(source, keyword),
                keyword |-> keyword, source |-> source,
                first_seen_ts |-> timestamp, last_seen_ts |-> timestamp ] ]

\* INSERT INTO keywords ... ON CONFLICT(keyword, source) DO UPDATE SET last_seen_ts
KeywordStatement(keyword, source, timestamp) ==
    [ mode |-> "upsert", table |-> "keywords",
      key |-> {"keyword", "source"}, update |-> {"last_seen_ts"},
      row |-> [ seedless_id |-> hashKeyword(source, keyword),
                keyword |-> keyword, source |-> source,
                first_seen_ts |-> timestamp, last_seen_ts |-> timestamp ] ]

upsertKeywordSource(tables, keyword, source, timestamp) ==
    Exec(tables, KeywordStatement(keyword, source, timestamp))

\* saveSuggestions: the statements of one iteration
\* Slip: the rank is part of the conflict target.
SuggestionStatementsKeyedByRank(suggestion, timestamp) ==
    LET normalizedKeyword == normalizeKeyword(suggestion.keyword)
    IN  IF normalizedKeyword = Null THEN <<>>
        ELSE << KeywordStatement(normalizedKeyword, suggestion.source, timestamp),
                [ mode |-> "upsert", table |-> "autocomplete_suggestions",
                  key |-> {"keyword", "source", "prefix", "rank"},
                  update |-> {"payload", "fetched_ts"},
                  row |-> [ keyword |-> normalizedKeyword, source |-> suggestion.source,
                            prefix |-> suggestion.prefix, rank |-> suggestion.rank,
                            payload |-> toJson(IF suggestion.payload = Null
                                               THEN <<"raw">> \o suggestion.keyword
                                               ELSE suggestion.payload),
                            fetched_ts |-> timestamp ] ] >>

SuggestionStatements(suggestion, timestamp) ==
    LET normalizedKeyword == normalizeKeyword(suggestion.keyword)
    IN  IF normalizedKeyword = Null THEN <<>>
        ELSE << KeywordStatement(normalizedKeyword, suggestion.source, timestamp),
                [ mode |-> "upsert", table |-> "autocomplete_suggestions",
                  key |-> {"keyword", "source", "prefix"},
                  update |-> {"rank", "payload", "fetched_ts"},
                  row |-> [ keyword |-> normalizedKeyword, source |-> suggestion.source,
                            prefix |-> suggestion.prefix, rank |-> suggestion.rank,
                            payload |-> toJson(IF suggestion.payload = Null
                                               THEN <<"raw">> \o suggestion.keyword
                                               ELSE suggestion.payload),
                            fetched_ts |-> timestamp ] ] >>

\* Slip: the keyword's candidate rows are replaced, not merged.
HarvestedStatementsReplacing(record, timestamp) ==
    LET normalized == normalizeKeyword(record.keyword)
        sourceKey == IF record.source = "category" THEN "etsy_category"
                     ELSE "etsy_trending"
    IN  IF normalized = Null THEN <<>>
        ELSE << [ mode |-> "delete", table |-> "keywords", key |-> {"keyword"},
                  update |-> {}, row |-> [keyword |-> normalized] ],
                KeywordStatement(normalized, sourceKey, timestamp) >>

\* saveHarvestedKeywords: the statements of one iteration
HarvestedStatements(record, timestamp) ==
    LET normalized == normalizeKeyword(record.keyword)
        sourceKey == IF record.source = "category" THEN "etsy_category"
                     ELSE "etsy_trending"
    IN  IF normalized = Null THEN <<>>
        ELSE << KeywordStatement(normalized, sourceKey, timestamp),
                [ mode |-> "upsert", table |-> "harvested_keywords",
                  key |-> {"keyword", "source", "url"}, update |-> {"discovered_ts"},
                  row |-> [ keyword |-> normalized, source |-> sourceKey,
                            url |-> record.url, context |-> toJson(record.context),
                            discovered_ts |-> timestamp ] ] >>

\* savePrefilteredKeywords: the statement of one iteration
PrefilteredStatements(record, timestamp) ==
    << [ mode |-> "upsert", table |-> "prefiltered_keywords", key |-> {"keyword"},
         update |-> {"length", "tokens", "sources", "reasons", "results_estimate",
                     "updated_ts"},
         row |-> [ keyword |-> record.keyword, length |-> record.length,
                   tokens |-> record.tokens, sources |-> toJson(record.sources),
                   reasons |-> toJson(record.reasons),
                   results_estimate |-> record.resultsEstimate,
                   updated_ts |-> timestamp ] ] >>

RECURSIVE SerpCacheStatements(_, _, _)
SerpCacheStatements(normalized, entries, fetchedAt) ==
    IF entries = <<>> THEN <<>>
    ELSE LET pageNumber == parseInt(Head(entries).page)
             rest == SerpCacheStatements(normalized, Tail(entries), fetchedAt)
         IN  IF pageNumber.isNaN THEN rest
             ELSE << [ mode |-> "upsert", table |-> "serp_cache",
                       key |-> {"keyword", "page"}, update |-> {"fetched_ts", "html"},
                       row |-> [ keyword |-> normalized, page |-> pageNumber.value,
                                 fetched_ts |-> fetchedAt,
                                 html |-> Head(entries).html ] ] >> \o rest

\* saveSearchResults: the statements of one iteration
SearchResultStatements(searchResult) ==
    LET normalized == normalizeKeyword(searchResult.keyword)
        listings == searchResult.listings
        adsCount == Cardinality({i \in 1..Len(listings) : listings[i].isAd})
        organicCount == Len(listings) - adsCount
        adRatio == IF Len(listings) > 0 THEN Frac(adsCount, Len(listings)) ELSE Null
        dominanceIndex == computeDominanceIndex(listings)
        priceStats == computePriceStats(listings)
    IN  IF normalized = Null THEN <<>>
        ELSE << [ mode |-> "delete", table |-> "listings", key |-> {"keyword"},
                  update |-> {}, row |-> [keyword |-> normalized] ] >>
             \o [ i \in 1..Len(listings) |->
                    [ mode |-> "insert", table |-> "listings",
                      key |-> {"keyword", "position"}, update |-> {},
                      row |-> [ keyword |-> normalized,
                                position |-> listings[i].position,
                                page |-> listings[i].page,
                                listing_id |-> listings[i].listingId,
                                is_ad |-> IF listings[i].isAd THEN 1 ELSE 0,
                                title |-> listings[i].title,
                                shop |-> listings[i].shop,
                                price |-> listings[i].price,
                                review_count |-> listings[i].reviewCount,
                                favorites |-> listings[i].favorites,
                                url |-> listings[i].url ] ] ]
             \o SerpCacheStatements(normalized, searchResult.rawHtml, searchResult.fetchedAt)
             \o << [ mode |-> "upsert", table |-> "search_results_metadata",
                     key |-> {"keyword"},
                     update |-> {"results_count", "ads_count", "organic_count",
                                 "ad_ratio", "dominance_index", "price_median",
                                 "price_iqr_over_median", "top_cards", "pages_fetched",
                                 "fetched_ts"},
                     row |-> [ keyword |-> normalized,
                               results_count |-> searchResult.resultsCount,
                               ads_count |-> adsCount,
                               organic_count |-> organicCount,
                               ad_ratio |-> adRatio,
                               dominance_index |-> dominanceIndex,
                               price_median |-> priceStats.median,
                               price_iqr_over_median |-> priceStats.dispersion,
                               top_cards |-> toJson(searchResult.topCards),
                               pages_fetched |-> searchResult.pagesFetched,
                               fetched_ts |-> searchResult.fetchedAt ] ] >>

\* saveListingMetrics: the statement of one iteration
ListingMetricsStatements(record, timestamp) ==
    << [ mode |-> "upsert", table |-> "keyword_listing_metrics", key |-> {"keyword"},
         update |-> {"sample_size", "favorites_avg", "favorites_median",
                     "review_velocity", "price_median", "price_iqr_over_median",
                     "payload", "sampled_ts"},
         row |-> [ keyword |-> record.keyword, sample_size |-> record.sampleSize,
                   favorites_avg |-> record.avgFavorites,
                   favorites_median |-> record.medianFavorites,
                   review_velocity |-> record.reviewVelocity,
                   price_median |-> record.priceMedian,
                   price_iqr_over_median |-> record.priceIqrOverMedian,
                   payload |-> toJson(record.payload),
                   sampled_ts |-> timestamp ] ] >>

\* Slip: on conflict the stored interest is kept.
GoogleTrendsStatementsFirstWins(record) ==
    << [ mode |-> "upsert", table |-> "trends_cache", key |-> {"keyword"},
         update |-> {"window", "series_json", "fetched_ts"},
         row |-> [ keyword |-> record.keyword, window |-> record.window,
                   avg_value |-> record.interest,
                   series_json |-> toJson(IF record.series = Null THEN <<>>
                                          ELSE record.series),
                   fetched_ts |-> record.fetchedAt ] ] >>

\* saveGoogleTrends: the statement of one iteration
GoogleTrendsStatements(record) ==
    << [ mode |-> "upsert", table |-> "trends_cache", key |-> {"keyword"},
         update |-> {"window", "avg_value", "series_json", "fetched_ts"},
         row |-> [ keyword |-> record.keyword, window |-> record.window,
                   avg_value |-> record.interest,
                   series_json |-> toJson(IF record.series = Null THEN <<>>
                                          ELSE record.series),
                   fetched_ts |-> record.fetchedAt ] ] >>

\* saveOpportunitySnapshots: the statement of one iteration
\* Slip: INSERT OR IGNORE, a keyword that has a row keeps it.
OpportunitySnapshotStatementsKeepOld(record) ==
    << [ mode |-> "upsert", table |-> "search_snapshot", key |-> {"keyword"},
         update |-> {},
         row |-> [ keyword |-> record.keyword,
                   results_count |-> record.resultsCount,
                   ad_ratio |-> record.adRatio,
                   dominance_index |-> record.dominanceIndex,
                   price_median |-> record.priceMedian,
                   price_iqr_over_median |-> record.priceIqrOverMedian,
                   favorites_avg |-> record.favoritesAvg,
                   review_velocity |-> record.reviewVelocity,
                   trends_avg |-> record.trendsAvg,
                   demand_score |-> record.demandScore,
                   competition_score |-> record.competitionScore,
                   opportunity_score |-> record.opportunityScore,
                   components |-> toJsonObject(record.components),
                   computed_ts |-> record.computedTs ] ] >>

OpportunitySnapshotStatements(record) ==
    << [ mode |-> "upsert", table |-> "search_snapshot", key |-> {"keyword"},
         update |-> {"results_count", "ad_ratio", "dominance_index", "price_median",
                     "price_iqr_over_median", "favorites_avg", "review_velocity",
                     "trends_avg", "demand_score", "competition_score",
                     "opportunity_score", "components", "computed_ts"},
         row |-> [ keyword |-> record.keyword,
                   results_count |-> record.resultsCount,
                   ad_ratio |-> record.adRatio,
                   dominance_index |-> record.dominanceIndex,
                   price_median |-> record.priceMedian,
                   price_iqr_over_median |-> record.priceIqrOverMedian,
                   favorites_avg |-> record.favoritesAvg,
                   review_velocity |-> record.reviewVelocity,
                   trends_avg |-> record.trendsAvg,
                   demand_score |-> record.demandScore,
                   competition_score |-> record.competitionScore,
                   opportunity_score |-> record.opportunityScore,
                   components |-> toJsonObject(record.components),
                   computed_ts |-> record.computedTs ] ] >>

\* The statements one iteration of a batch write issues for one record.
RowStatements(op, record, timestamp) ==
    CASE op = "saveSuggestions" -> SuggestionStatements(record, timestamp)
      [] op = "saveHarvestedKeywords" -> HarvestedStatements(record, timestamp)
      [] op = "savePrefilteredKeywords" -> PrefilteredStatements(record, timestamp)
      [] op = "saveSearchResults" -> SearchResultStatements(record)
      [] op = "saveListingMetrics" -> ListingMetricsStatements(record, timestamp)
      [] op = "saveGoogleTrends" -> GoogleTrendsStatements(record)
      [] op = "saveOpportunitySnapshots" -> OpportunitySnapshotStatements(record)

\* The statements of a whole batch, record after record.
RECURSIVE BatchStatements(_, _, _)
BatchStatements(op, rows, timestamp) ==
    IF rows = <<>> THEN <<>>
    ELSE RowStatements(op, Head(rows), timestamp)
         \o BatchStatements(op, Tail(rows), timestamp)

\* The rows of a result set in the order the database hands them out.
RECURSIVE SetToSeq(_)
SetToSeq(S) ==
    IF S = {} THEN <<>>
    ELSE LET x == CHOOSE y \in S : TRUE
         IN  <<x>> \o SetToSeq(S \ {x})

\* GROUP_CONCAT(column, separator): the values joined into one text, here the
\* list of its pieces (a value, the separator, a value, ...).
RECURSIVE GroupConcat(_, _)
GroupConcat(values, separator) ==
    IF values = <<>> THEN <<>>
    ELSE IF Len(values) = 1 THEN <<values[1]>>
    ELSE <<values[1], separator>> \o GroupConcat(Tail(values), separator)

\* text.split(separator): the parts between the separators, some maybe empty.
RECURSIVE SplitFrom(_, _, _)
SplitFrom(text, separator, part) ==
    IF text = <<>> THEN <<part>>
    ELSE IF Head(text) = separator
         THEN <<part>> \o SplitFrom(Tail(text), separator, <<>>)
         ELSE SplitFrom(Tail(text), separator, part \o <<Head(text)>>)

Split(text, separator) == SplitFrom(text, separator, <<>>)

\* .filter(Boolean) on the parts, each non-empty part read back as a name
RECURSIVE FilterBoolean(_)
FilterBoolean(parts) ==
    IF parts = <<>> THEN <<>>
    ELSE IF Head(parts) = <<>> THEN FilterBoolean(Tail(parts))
    ELSE <<Head(parts)[1]>> \o FilterBoolean(Tail(parts))

\* Slip: the rows are grouped by keyword and source, one candidate per row.
getKeywordCandidatesPerRow(tables) ==
    LET rows == SetToSeq(tables.keywords)
    IN  [i \in 1..Len(rows) |->
            [keyword |-> rows[i].keyword, sources |-> <<rows[i].source>>]]

\* SELECT keyword, GROUP_CONCAT(source, '||') AS sources FROM keywords GROUP BY keyword
getKeywordCandidates(tables) ==
    LET groups == SetToSeq({r.keyword : r \in tables.keywords})
    IN  [i \in 1..Len(groups) |->
            LET rows == SetToSeq({r \in tables.keywords : r.keyword = groups[i]})
                joined == GroupConcat([j \in 1..Len(rows) |-> rows[j].source], "||")
            IN  [keyword |-> groups[i],
                 sources |-> IF joined = <<>> THEN <<>>
                             ELSE FilterBoolean(Split(joined, "||"))]]

(***************************************************************************)
(* KeywordStore: the three reads of the scorer                             *)
(***************************************************************************)
\* JSON.parse of what toJson wrote; NULL and '' give undefined
parseJson(text) == IF text = Null \/ text = <<>> THEN Null ELSE Tail(text)

\* All the orders in which SELECT ... FROM table can hand out the rows.
Orders(rows) ==
    {s \in [1..Cardinality(rows) -> rows] :
        \A i, j \in 1..Cardinality(rows) : s[i] = s[j] => i = j}

getSearchResultsMetadata(rows) ==
    [i \in 1..Len(rows) |->
        [ keyword |-> rows[i].keyword,
          resultsCount |-> rows[i].results_count,
          adsCount |-> rows[i].ads_count,
          organicCount |-> rows[i].organic_count,
          adRatio |-> rows[i].ad_ratio,
          dominanceIndex |-> rows[i].dominance_index,
          priceMedian |-> rows[i].price_median,
          priceIqrOverMedian |-> rows[i].price_iqr_over_median,
          topCards |-> IF parseJson(rows[i].top_cards) = Null THEN <<>>
                       ELSE parseJson(rows[i].top_cards),
          pagesFetched |-> rows[i].pages_fetched,
          fetchedAt |-> rows[i].fetched_ts ]]

getListingMetrics(rows) ==
    [i \in 1..Len(rows) |->
        [ keyword |-> rows[i].keyword,
          sampleSize |-> rows[i].sample_size,
          avgFavorites |-> rows[i].favorites_avg,
          medianFavorites |-> rows[i].favorites_median,
          reviewVelocity |-> rows[i].review_velocity,
          priceMedian |-> rows[i].price_median,
          priceIqrOverMedian |-> rows[i].price_iqr_over_median,
          payload |-> parseJson(rows[i].payload) ]]

getGoogleTrends(rows) ==
    [i \in 1..Len(rows) |->
        [ keyword |-> rows[i].keyword,
          window |-> rows[i].window,
          interest |-> rows[i].avg_value,
          series |-> parseJson(rows[i].series_json),
          fetchedAt |-> rows[i].fetched_ts ]]

(***************************************************************************)
(* Statistics of the scorer                                                *)
(***************************************************************************)
\* typeof value === 'number' && Number.isFinite(value)
IsFinite(value) == Len(value) = 2

FracAbs(a) == << Abs(a[1]), a[2] >>

\* a ?? b
Coalesce(a, b) == IF a # Null THEN a ELSE b

\* Math.log1p on the result counts of the model, to one decimal place
log1p(x) ==
    CASE x = <<0, 1>> -> <<0, 1>>
      [] x = <<1, 1>> -> <<7, 10>>
      [] x = <<2, 1>> -> <<11, 10>>
      [] x = <<3, 1>> -> <<7, 5>>
      [] x = <<4, 1>> -> <<8, 5>>

collectSeries(records) == SelectSeq(records, IsFinite)

medianAbsoluteDeviation(values) ==
    IF Len(values) = 0 THEN Null
    ELSE LET med == median(values)
         IN  IF med = Null THEN Null
             ELSE median([i \in 1..Len(values) |-> FracAbs(FracSub(values[i], med))])

\* Slip: an empty population gives the raw value back instead of 0.
robustNormalizeRawOnEmpty(value, series) ==
    IF ~IsFinite(value) THEN <<0, 1>>
    ELSE IF Len(series) = 0 THEN value
    ELSE LET med == median(series)
             spread == Coalesce(iqr(series),
                                Coalesce(medianAbsoluteDeviation(series), <<1, 1>>))
         IN  IF med = Null \/ ~IsFinite(spread) \/ spread = <<0, 1>> THEN value
             ELSE FracDiv(FracSub(value, med), spread)

\* Slip: the median absolute deviation is taken first and the interquartile
\* range only when there is none.
robustNormalizeDeviationFirst(value, series) ==
    IF ~IsFinite(value) \/ Len(series) = 0 THEN <<0, 1>>
    ELSE LET med == median(series)
             spread == Coalesce(medianAbsoluteDeviation(series),
                                Coalesce(iqr(series), <<1, 1>>))
         IN  IF med = Null \/ ~IsFinite(spread) \/ spread = <<0, 1>> THEN value
             ELSE FracDiv(FracSub(value, med), spread)

robustNormalize(value, series) ==
    IF ~IsFinite(value) \/ Len(series) = 0 THEN <<0, 1>>
    ELSE LET med == median(series)
             spread == Coalesce(iqr(series),
                                Coalesce(medianAbsoluteDeviation(series), <<1, 1>>))
         IN  IF med = Null \/ ~IsFinite(spread) \/ spread = <<0, 1>> THEN value
             ELSE FracDiv(FracSub(value, med), spread)

(***************************************************************************)
(* OpportunityScorer                                                       *)
(***************************************************************************)
\* The Map of the join as the list of its entries in insertion order.
MapHas(entries, key) == \E i \in 1..Len(entries) : entries[i].keyword = key

MapGet(entries, key) ==
    entries[CHOOSE i \in 1..Len(entries) : entries[i].keyword = key].metrics

MapSet(entries, key, value) ==
    IF MapHas(entries, key)
    THEN [i \in 1..Len(entries) |->
            IF entries[i].keyword = key THEN [entries[i] EXCEPT !.metrics = value]
            ELSE entries[i]]
    ELSE Append(entries, [keyword |-> key, metrics |-> value])

\* existing.field = record
WithField(existing, field, record) ==
    [f \in DOMAIN existing \cup {field} |-> IF f = field THEN record ELSE existing[f]]

\* records.forEach: existing = map.get(keyword) ?? {}; existing.field = record
RECURSIVE Merge(_, _, _)
Merge(entries, records, field) ==
    IF records = <<>> THEN entries
    ELSE LET record == Head(records)
             existing == IF MapHas(entries, record.keyword)
                         THEN MapGet(entries, record.keyword) ELSE <<>>
         IN  Merge(MapSet(entries, record.keyword, WithField(existing, field, record)),
                   Tail(records), field)

\* metadata.forEach: map.set(record.keyword, { metadata: record })
RECURSIVE SetMetadata(_, _)
SetMetadata(entries, records) ==
    IF records = <<>> THEN entries
    ELSE SetMetadata(MapSet(entries, Head(records).keyword,
                            [metadata |-> Head(records)]),
                     Tail(records))

\* Slip: an inner join, only keywords with search-result metadata are kept.
buildAggregatedMetricsInner(metadata, listings, trends) ==
    LET all == Merge(Merge(SetMetadata(<<>>, metadata), listings, "listing"),
                     trends, "trends")
        HasMetadata(entry) == "metadata" \in DOMAIN entry.metrics
    IN  SelectSeq(all, HasMetadata)

buildAggregatedMetrics(metadata, listings, trends) ==
    Merge(Merge(SetMetadata(<<>>, metadata), listings, "listing"), trends, "trends")

\* metrics.part?.field ?? null
Optional(metrics, part, field) ==
    IF part \in DOMAIN metrics THEN metrics[part][field] ELSE Null

buildSeries(metadata, listings, trends) ==
    [ logResults |-> collectSeries([i \in 1..Len(metadata) |->
                        IF metadata[i].resultsCount # Null
                        THEN log1p(metadata[i].resultsCount) ELSE Null]),
      adRatio |-> collectSeries([i \in 1..Len(metadata) |-> metadata[i].adRatio]),
      dominance |-> collectSeries([i \in 1..Len(metadata) |-> metadata[i].dominanceIndex]),
      priceDispersion |-> collectSeries(
          [i \in 1..Len(listings) |-> listings[i].priceIqrOverMedian]
          \o [i \in 1..Len(metadata) |-> metadata[i].priceIqrOverMedian]),
      reviewVelocity |-> collectSeries([i \in 1..Len(listings) |-> listings[i].reviewVelocity]),
      favorites |-> collectSeries([i \in 1..Len(listings) |->
                        Coalesce(listings[i].avgFavorites, listings[i].medianFavorites)]),
      trends |-> collectSeries([i \in 1..Len(trends) |-> trends[i].interest]) ]

\* Slip: a field nobody measured is reported as 0.
rawFieldsZeroed(metrics) ==
    [ resultsCount |-> Coalesce(Optional(metrics, "metadata", "resultsCount"), <<0, 1>>),
      adRatio |-> Coalesce(Optional(metrics, "metadata", "adRatio"), <<0, 1>>),
      dominanceIndex |-> Coalesce(Optional(metrics, "metadata", "dominanceIndex"), <<0, 1>>),
      priceIqrOverMedian |->
          Coalesce(Optional(metrics, "listing", "priceIqrOverMedian"),
                   Coalesce(Optional(metrics, "metadata", "priceIqrOverMedian"), <<0, 1>>)),
      favoritesAvg |-> Coalesce(Optional(metrics, "listing", "avgFavorites"),
                                Coalesce(Optional(metrics, "listing", "medianFavorites"),
                                         <<0, 1>>)),
      reviewVelocity |-> Coalesce(Optional(metrics, "listing", "reviewVelocity"), <<0, 1>>),
      trendsAvg |-> Coalesce(Optional(metrics, "trends", "interest"), <<0, 1>>),
      priceMedian |-> Coalesce(Optional(metrics, "listing", "priceMedian"),
                               Coalesce(Optional(metrics, "metadata", "priceMedian"),
                                        <<0, 1>>)) ]

\* computeSnapshot: the raw fields of the snapshot
rawFields(metrics) ==
    [ resultsCount |-> Optional(metrics, "metadata", "resultsCount"),
      adRatio |-> Optional(metrics, "metadata", "adRatio"),
      dominanceIndex |-> Optional(metrics, "metadata", "dominanceIndex"),
      priceIqrOverMedian |->
          Coalesce(Optional(metrics, "listing", "priceIqrOverMedian"),
                   Optional(metrics, "metadata", "priceIqrOverMedian")),
      favoritesAvg |-> Coalesce(Optional(metrics, "listing", "avgFavorites"),
                                Optional(metrics, "listing", "medianFavorites")),
      reviewVelocity |-> Optional(metrics, "listing", "reviewVelocity"),
      trendsAvg |-> Optional(metrics, "trends", "interest"),
      priceMedian |-> Coalesce(Optional(metrics, "listing", "priceMedian"),
                               Optional(metrics, "metadata", "priceMedian")) ]

\* Slip: a missing input is scored as the lowest value of its series.
ComponentPenalised(value, series) ==
    IF value # Null THEN robustNormalize(value, series) ELSE <<-1, 1>>

\* value !== null ? robustNormalize(value, series) : 0
Component(value, series) ==
    IF value # Null THEN robustNormalize(value, series) ELSE <<0, 1>>

\* Slip: a negative competition score is not clamped.
opportunityScoreUnclamped(demandScore, competitionScore) ==
    IF FracAdd(<<1, 1>>, competitionScore) = <<0, 1>> THEN <<0, 1>>
    ELSE FracDiv(demandScore, FracAdd(<<1, 1>>, competitionScore))

\* demandScore / (1 + Math.max(0, competitionScore))
opportunityScore(demandScore, competitionScore) ==
    FracDiv(demandScore,
            FracAdd(<<1, 1>>, IF FracLeq(competitionScore, <<0, 1>>) THEN <<0, 1>>
                              ELSE competitionScore))

\* The value each score component is derived from; the results count goes
\* through Math.log1p first.
ComponentInputs(raw) ==
    [ trends |-> raw.trendsAvg,
      reviewVelocity |-> raw.reviewVelocity,
      favorites |-> raw.favoritesAvg,
      resultsCount |-> IF raw.resultsCount # Null THEN log1p(raw.resultsCount) ELSE Null,
      adRatio |-> raw.adRatio,
      dominance |-> raw.dominanceIndex,
      priceDispersion |-> raw.priceIqrOverMedian ]

\* The series each score component is normalized against.
ComponentSeries(series) ==
    [ trends |-> series.trends,
      reviewVelocity |-> series.reviewVelocity,
      favorites |-> series.favorites,
      resultsCount |-> series.logResults,
      adRatio |-> series.adRatio,
      dominance |-> series.dominance,
      priceDispersion |-> series.priceDispersion ]

\* demandComponents and competitionComponents
NormalizedComponents(inputs, seriesOf) ==
    [c \in DOMAIN inputs |-> Component(inputs[c], seriesOf[c])]

\* the components as they enter the two sums
WeightedComponents(weights, normalized) ==
    [ trends |-> normalized.trends,
      reviewVelocity |-> FracMul(weights.review_velocity, normalized.reviewVelocity),
      favorites |-> FracMul(weights.favorites, normalized.favorites),
      resultsCount |-> normalized.resultsCount,
      adRatio |-> FracMul(weights.ad_ratio, normalized.adRatio),
      dominance |-> FracMul(weights.dominance, normalized.dominance),
      priceDispersion |-> FracMul(weights.price_dispersion, normalized.priceDispersion) ]

\* Slip: the favorites term is left out of the demand score.
demandScoreWithoutFavorites(weighted) ==
    FracAdd(weighted.trends, weighted.reviewVelocity)

demandScoreOf(weighted) ==
    FracAdd(FracAdd(weighted.trends, weighted.reviewVelocity), weighted.favorites)

competitionScoreOf(weighted) ==
    FracAdd(FracAdd(FracAdd(weighted.resultsCount, weighted.adRatio), weighted.dominance),
            weighted.priceDispersion)

\* the record computeSnapshot returns
SnapshotRecord(keyword, raw, weighted, demandScore, competitionScore, now) ==
    [ keyword |-> keyword,
      resultsCount |-> raw.resultsCount,
      adRatio |-> raw.adRatio,
      dominanceIndex |-> raw.dominanceIndex,
      priceMedian |-> raw.priceMedian,
      priceIqrOverMedian |-> raw.priceIqrOverMedian,
      favoritesAvg |-> raw.favoritesAvg,
      reviewVelocity |-> raw.reviewVelocity,
      trendsAvg |-> raw.trendsAvg,
      demandScore |-> demandScore,
      competitionScore |-> competitionScore,
      opportunityScore |-> opportunityScore(demandScore, competitionScore),
      computedTs |-> now,
      components |->
          [ demand |-> [ trends |-> weighted.trends,
                         reviewVelocity |-> weighted.reviewVelocity,
                         favorites |-> weighted.favorites ],
            competition |-> [ resultsCount |-> weighted.resultsCount,
                              adRatio |-> weighted.adRatio,
                              dominance |-> weighted.dominance,
                              priceDispersion |-> weighted.priceDispersion ] ] ]

ScoredSnapshot(keyword, raw, weighted, now) ==
    SnapshotRecord(keyword, raw, weighted, demandScoreOf(weighted),
                   competitionScoreOf(weighted), now)

RawSnapshot(keyword, raw, series, weights, now) ==
    ScoredSnapshot(keyword, raw,
                   WeightedComponents(weights,
                       NormalizedComponents(ComponentInputs(raw), ComponentSeries(series))),
                   now)

computeSnapshot(keyword, metrics, series, weights, now) ==
    RawSnapshot(keyword, rawFields(metrics), series, weights, now)

\* (b.opportunityScore ?? 0) - (a.opportunityScore ?? 0) > 0: b goes before a
GoesBefore(b, a) ==
    ~FracLeq(Coalesce(b.opportunityScore, <<0, 1>>),
             Coalesce(a.opportunityScore, <<0, 1>>))

\* Slip: the sort puts an element before the elements it ties with.
RECURSIVE InsertSnapshotBeforeTies(_, _)
InsertSnapshotBeforeTies(x, sorted) ==
    IF sorted = <<>> THEN <<x>>
    ELSE IF ~GoesBefore(Head(sorted), x) THEN <<x>> \o sorted
    ELSE <<Head(sorted)>> \o InsertSnapshotBeforeTies(x, Tail(sorted))

\* Array.prototype.sort is stable: x, which came after every element of
\* sorted, is put before the first element it has to go before.
RECURSIVE InsertSnapshot(_, _)
InsertSnapshot(x, sorted) ==
    IF sorted = <<>> THEN <<x>>
    ELSE IF GoesBefore(x, Head(sorted)) THEN <<x>> \o sorted
    ELSE <<Head(sorted)>> \o InsertSnapshot(x, Tail(sorted))

RECURSIVE SortSnapshots(_)
SortSnapshots(snapshots) ==
    IF snapshots = <<>> THEN <<>>
    ELSE InsertSnapshot(snapshots[Len(snapshots)],
                        SortSnapshots(SubSeq(snapshots, 1, Len(snapshots) - 1)))

(***************************************************************************)
(* AutocompleteEnumerator.run                                              *)
(***************************************************************************)
\* Where run() goes once source number idx has been dealt with for the prefix.
AfterSource(idx, suggestions) ==
    IF idx < Len(sources) THEN [pc |-> "fetch", srcIdx |-> idx + 1]
    ELSE [pc |-> IF Len(suggestions) > 0 THEN "save" ELSE "expand", srcIdx |-> idx]

\* buildSources fails while a source's request context is being created.
BuildSourcesFault ==
    /\ pc = "build"
    /\ \E k \in 1..Len(EnabledSources) :
          /\ sources' = SubSeq(EnabledSources, 1, k - 1)
          /\ result' = [status |-> "rejected", fault |-> "create"]
    /\ pc' = "done"
    /\ UNCHANGED << cfg, stub, calc, pipe, fetch, serp, scorer, queue, visited, uniqueKeywords,
                    sourceBreakdown, totalPersisted,
                    processedPrefixes, persistedCombinations, prefix, prefixSuggestions,
                    prefixUnique, perSourceSeen, srcIdx, pending, pendingError,
                    disposeCalls >>
    /\ UNCHANGED storeVars
    /\ UNCHANGED histVars

\* Slip: the early return is missing and run() goes on to seed the frontier.
BuildNoSourcesFallsThrough ==
    /\ pc = "build"
    /\ Len(EnabledSources) = 0
    /\ sources' = <<>>
    /\ queue' = initializeQueue(cfg.initial_prefixes, EffectiveAlphabet)
    /\ visited' = SeqToSet(queue')
    /\ enqueued' = queue'
    /\ pc' = "loop"
    /\ UNCHANGED << cfg, stub, calc, pipe, fetch, serp, scorer, uniqueKeywords, sourceBreakdown,
                    totalPersisted,
                    processedPrefixes, persistedCombinations, prefix, prefixSuggestions,
                    prefixUnique, perSourceSeen, srcIdx, pending, pendingError,
                    disposeCalls, result >>
    /\ UNCHANGED storeVars
    /\ UNCHANGED << dequeued, fetchLog, accepted, overBudget, faultAt, storeFault >>

\* No source is enabled: run() returns the all-zero statistics.
BuildNoSources ==
    /\ pc = "build"
    /\ Len(EnabledSources) = 0
    /\ sources' = <<>>
    /\ result' = [status |-> "returned", stats |-> ZeroStats]
    /\ pc' = "done"
    /\ UNCHANGED << cfg, stub, calc, pipe, fetch, serp, scorer, queue, visited, uniqueKeywords,
                    sourceBreakdown, totalPersisted,
                    processedPrefixes, persistedCombinations, prefix, prefixSuggestions,
                    prefixUnique, perSourceSeen, srcIdx, pending, pendingError,
                    disposeCalls >>
    /\ UNCHANGED storeVars
    /\ UNCHANGED histVars

\* The sources are created and the frontier is seeded.
BuildSources ==
    /\ pc = "build"
    /\ Len(EnabledSources) > 0
    /\ sources' = EnabledSources
    /\ queue' = initializeQueue(cfg.initial_prefixes, EffectiveAlphabet)
    /\ visited' = SeqToSet(queue')
    /\ enqueued' = queue'
    /\ pc' = "loop"
    /\ UNCHANGED << cfg, stub, calc, pipe, fetch, serp, scorer, uniqueKeywords, sourceBreakdown,
                    totalPersisted,
                    processedPrefixes, persistedCombinations, prefix, prefixSuggestions,
                    prefixUnique, perSourceSeen, srcIdx, pending, pendingError,
                    disposeCalls, result >>
    /\ UNCHANGED storeVars
    /\ UNCHANGED << dequeued, fetchLog, accepted, overBudget, faultAt, storeFault >>

\* while (queue.length > 0) is false: leave the loop.
QueueExhausted ==
    /\ pc = "loop"
    /\ Len(queue) = 0
    /\ pc' = "dispose"
    /\ UNCHANGED << cfg, stub, calc, pipe, fetch, serp, scorer >>
    /\ UNCHANGED runVars
    /\ UNCHANGED storeVars
    /\ UNCHANGED histVars

\* queue.shift() and the per-prefix bookkeeping.
Dequeue ==
    /\ pc = "loop"
    /\ Len(queue) > 0
    /\ queue' = Tail(queue)
    /\ IF Head(queue) = <<>>
       THEN /\ pc' = "loop"
            /\ UNCHANGED << processedPrefixes, prefix, prefixSuggestions, prefixUnique,
                            perSourceSeen, srcIdx, dequeued >>
       ELSE /\ prefix' = Head(queue)
            /\ processedPrefixes' = processedPrefixes + 1
            /\ prefixSuggestions' = <<>>
            /\ prefixUnique' = {}
            /\ perSourceSeen' = [n \in SourceNames |-> {}]
            /\ srcIdx' = 1
            /\ dequeued' = Append(dequeued, Head(queue))
            /\ pc' = "fetch"
    /\ UNCHANGED << cfg, stub, calc, pipe, fetch, serp, scorer, sources, visited, uniqueKeywords,
                    sourceBreakdown, totalPersisted,
                    persistedCombinations, pending, pendingError, disposeCalls, result >>
    /\ UNCHANGED storeVars
    /\ UNCHANGED << enqueued, fetchLog, accepted, overBudget, faultAt, storeFault >>

\* source.fetchSuggestions(prefix) returns a list.
FetchOk ==
    /\ pc = "fetch"
    /\ \E resp \in Responses :
          LET name == sources[srcIdx]
              suggestions == [i \in 1..Len(resp) |->
                                [ keyword |-> resp[i], source |-> name, prefix |-> prefix,
                                  rank |-> i - 1, payload |-> resp[i] ]]
              next == AfterSource(srcIdx, prefixSuggestions)
          IN  /\ pending' = suggestions
              /\ IF Len(suggestions) > 0
                 THEN pc' = "process" /\ UNCHANGED srcIdx
                 ELSE pc' = next.pc /\ srcIdx' = next.srcIdx
    /\ fetchLog' = Append(fetchLog, <<sources[srcIdx], prefix>>)
    /\ UNCHANGED << cfg, stub, calc, pipe, fetch, serp, scorer, sources, queue, visited,
                    uniqueKeywords, sourceBreakdown,
                    totalPersisted, processedPrefixes, persistedCombinations, prefix,
                    prefixSuggestions, prefixUnique, perSourceSeen, pendingError,
                    disposeCalls, result >>
    /\ UNCHANGED storeVars
    /\ UNCHANGED << enqueued, dequeued, accepted, overBudget, faultAt, storeFault >>

\* Slip: the fault of a source is not caught and leaves the try block.
FetchFaultUncaught ==
    /\ pc = "fetch"
    /\ pendingError' = TRUE
    /\ pc' = "dispose"
    /\ fetchLog' = Append(fetchLog, <<sources[srcIdx], prefix>>)
    /\ faultAt' = IF faultAt = 0 THEN Len(fetchLog) + 1 ELSE faultAt
    /\ UNCHANGED << cfg, stub, calc, pipe, fetch, serp, scorer, sources, queue, visited,
                    uniqueKeywords, sourceBreakdown,
                    totalPersisted, processedPrefixes, persistedCombinations, prefix,
                    prefixSuggestions, prefixUnique, perSourceSeen, srcIdx, pending,
                    disposeCalls, result >>
    /\ UNCHANGED storeVars
    /\ UNCHANGED << enqueued, dequeued, accepted, overBudget, storeFault >>

\* source.fetchSuggestions(prefix) throws: caught, logged, next source.
FetchFault ==
    /\ pc = "fetch"
    /\ LET next == AfterSource(srcIdx, prefixSuggestions)
       IN  pc' = next.pc /\ srcIdx' = next.srcIdx
    /\ fetchLog' = Append(fetchLog, <<sources[srcIdx], prefix>>)
    /\ UNCHANGED << cfg, stub, calc, pipe, fetch, serp, scorer, sources, queue, visited,
                    uniqueKeywords, sourceBreakdown,
                    totalPersisted, processedPrefixes, persistedCombinations, prefix,
                    prefixSuggestions, prefixUnique, perSourceSeen, pending, pendingError,
                    disposeCalls, result >>
    /\ faultAt' = IF faultAt = 0 THEN Len(fetchLog) + 1 ELSE faultAt
    /\ UNCHANGED storeVars
    /\ UNCHANGED << enqueued, dequeued, accepted, overBudget, storeFault >>

\* One iteration of the loop over the suggestions of a response (lines 558-593).
ProcessSuggestion ==
    /\ pc = "process"
    /\ Len(pending) > 0
    /\ LET suggestion == Head(pending)
           name == sources[srcIdx]
           normalized == sanitizeKeyword(suggestion.keyword)
           seenForSource == perSourceSeen[name]
           isNewKeyword == normalized \notin uniqueKeywords
           skipped == \/ normalized = Null
                      \/ normalized \in seenForSource
                      \/ BudgetRejects(isNewKeyword, Cardinality(uniqueKeywords), budget)
           combinationKey == <<suggestion.source, normalized>>
           push == ~skipped /\ combinationKey \notin persistedCombinations
           payload == IF suggestion.payload = Null
                      THEN <<"original">> \o suggestion.keyword
                      ELSE suggestion.payload
           row == [ keyword |-> normalized, source |-> suggestion.source,
                    prefix |-> prefix, rank |-> suggestion.rank,
                    payload |-> payload ]
           newSuggestions == IF push THEN Append(prefixSuggestions, row)
                             ELSE prefixSuggestions
           next == AfterSource(srcIdx, newSuggestions)
       IN  /\ pending' = Tail(pending)
           /\ perSourceSeen' = IF skipped THEN perSourceSeen
                               ELSE [perSourceSeen EXCEPT ![name] = @ \cup {normalized}]
           /\ uniqueKeywords' = IF skipped THEN uniqueKeywords
                                ELSE uniqueKeywords \cup {normalized}
           /\ prefixUnique' = IF skipped THEN prefixUnique
                              ELSE prefixUnique \cup {normalized}
           /\ persistedCombinations' = IF push
                                       THEN persistedCombinations \cup {combinationKey}
                                       ELSE persistedCombinations
           /\ prefixSuggestions' = newSuggestions
           /\ sourceBreakdown' = IF push THEN [sourceBreakdown EXCEPT ![name] = @ + 1]
                                 ELSE sourceBreakdown
           /\ accepted' = IF push
                          THEN accepted \cup {[ keyword |-> normalized,
                                                source |-> suggestion.source,
                                                prefix |-> prefix ]}
                          ELSE accepted
           /\ overBudget' = IF /\ normalized # Null
                               /\ normalized \notin seenForSource
                               /\ BudgetRejects(isNewKeyword, Cardinality(uniqueKeywords),
                                                budget)
                            THEN TRUE
                            ELSE overBudget
           /\ IF Len(pending) > 1
              THEN UNCHANGED << pc, srcIdx >>
              ELSE pc' = next.pc /\ srcIdx' = next.srcIdx
    /\ UNCHANGED << cfg, stub, calc, pipe, fetch, serp, scorer, sources, queue, visited,
                    totalPersisted, processedPrefixes,
                    prefix, pendingError, disposeCalls, result >>
    /\ UNCHANGED storeVars
    /\ UNCHANGED << enqueued, dequeued, fetchLog, faultAt, storeFault >>

\* store.saveSuggestions: Date.now() and BEGIN.
SaveBegin ==
    /\ pc = "save"
    /\ clock' = clock + 1
    /\ tx' = [open |-> TRUE, tables |-> db]
    /\ txQueue' = prefixSuggestions
    /\ pc' = "saverow"
    /\ UNCHANGED << cfg, stub, calc, pipe, fetch, serp, scorer, db, call >>
    /\ UNCHANGED runVars
    /\ UNCHANGED histVars

\* BEGIN fails: the fault leaves saveSuggestions before its try block.
SaveBeginFault ==
    /\ pc = "save"
    /\ pendingError' = TRUE
    /\ pc' = "dispose"
    /\ UNCHANGED << cfg, stub, calc, pipe, fetch, serp, scorer, sources, queue, visited,
                    uniqueKeywords, sourceBreakdown,
                    totalPersisted, processedPrefixes, persistedCombinations, prefix,
                    prefixSuggestions, prefixUnique, perSourceSeen, srcIdx, pending,
                    disposeCalls, result >>
    /\ UNCHANGED storeVars
    /\ storeFault' = TRUE
    /\ UNCHANGED << enqueued, dequeued, fetchLog, accepted, overBudget, faultAt >>

\* One iteration of the loop over the batch (lines 554-584), both statements succeed.
SaveRow ==
    /\ pc = "saverow"
    /\ Len(txQueue) > 0
    /\ LET statements == RowStatements("saveSuggestions", Head(txQueue), clock)
       IN  /\ FirstFailure(tx.tables, statements) = 0
           /\ tx' = [tx EXCEPT !.tables = ExecAll(@, statements)]
    /\ txQueue' = Tail(txQueue)
    /\ UNCHANGED << cfg, stub, calc, pipe, fetch, serp, scorer, pc, db, clock, call >>
    /\ UNCHANGED runVars
    /\ UNCHANGED histVars

\* One of the two statements of an iteration fails.
SaveRowFault ==
    /\ pc = "saverow"
    /\ Len(txQueue) > 0
    /\ LET statements == RowStatements("saveSuggestions", Head(txQueue), clock)
       IN  \E failing \in FaultPoints(tx.tables, statements) :
              tx' = [tx EXCEPT !.tables = ExecAll(@, SubSeq(statements, 1, failing - 1))]
    /\ pc' = "rollback"
    /\ UNCHANGED << cfg, stub, calc, pipe, fetch, serp, scorer, db, txQueue, clock, call >>
    /\ UNCHANGED runVars
    /\ storeFault' = TRUE
    /\ UNCHANGED << enqueued, dequeued, fetchLog, accepted, overBudget, faultAt >>

\* A run that adds the number of distinct keywords of the prefix to its total.
SaveCommitCountsKeywords ==
    /\ pc = "saverow"
    /\ Len(txQueue) = 0
    /\ db' = tx.tables
    /\ tx' = NoTx
    /\ totalPersisted' = totalPersisted + Cardinality(prefixUnique)
    /\ pc' = "expand"
    /\ UNCHANGED << cfg, stub, calc, pipe, fetch, serp, scorer, sources, queue, visited,
                    uniqueKeywords, sourceBreakdown,
                    processedPrefixes, persistedCombinations, prefix, prefixSuggestions,
                    prefixUnique, perSourceSeen, srcIdx, pending, pendingError,
                    disposeCalls, result >>
    /\ UNCHANGED << txQueue, clock, call >>
    /\ UNCHANGED histVars

\* COMMIT, then back in run(): totalPersisted += prefixSuggestions.length.
SaveCommit ==
    /\ pc = "saverow"
    /\ Len(txQueue) = 0
    /\ db' = tx.tables
    /\ tx' = NoTx
    /\ totalPersisted' = totalPersisted + Len(prefixSuggestions)
    /\ pc' = "expand"
    /\ UNCHANGED << cfg, stub, calc, pipe, fetch, serp, scorer, sources, queue, visited,
                    uniqueKeywords, sourceBreakdown,
                    processedPrefixes, persistedCombinations, prefix, prefixSuggestions,
                    prefixUnique, perSourceSeen, srcIdx, pending, pendingError,
                    disposeCalls, result >>
    /\ UNCHANGED << txQueue, clock, call >>
    /\ UNCHANGED histVars

SaveCommitFault ==
    /\ pc = "saverow"
    /\ Len(txQueue) = 0
    /\ pc' = "rollback"
    /\ UNCHANGED << cfg, stub, calc, pipe, fetch, serp, scorer >>
    /\ UNCHANGED runVars
    /\ UNCHANGED storeVars
    /\ storeFault' = TRUE
    /\ UNCHANGED << enqueued, dequeued, fetchLog, accepted, overBudget, faultAt >>

\* Slip: the catch block rolls back but does not rethrow.
SaveRollbackSwallowed ==
    /\ pc = "rollback"
    /\ tx' = NoTx
    /\ txQueue' = <<>>
    /\ pc' = "expand"
    /\ UNCHANGED << cfg, stub, calc, pipe, fetch, serp, scorer, db, clock, call >>
    /\ UNCHANGED runVars
    /\ UNCHANGED histVars

\* catch: ROLLBACK and rethrow; the fault leaves run()'s try block.
SaveRollback ==
    /\ pc = "rollback"
    /\ tx' = NoTx
    /\ txQueue' = <<>>
    /\ pendingError' = TRUE
    /\ pc' = "dispose"
    /\ UNCHANGED << cfg, stub, calc, pipe, fetch, serp, scorer, sources, queue, visited,
                    uniqueKeywords, sourceBreakdown,
                    totalPersisted, processedPrefixes, persistedCombinations, prefix,
                    prefixSuggestions, prefixUnique, perSourceSeen, srcIdx, pending,
                    disposeCalls, result >>
    /\ UNCHANGED << db, clock, call >>
    /\ UNCHANGED histVars

\* Slip: the loop is also left when a prefix gave no suggestion to persist.
ExpandStopsOnSilence ==
    /\ pc = "expand"
    /\ LET grown == IF ShouldExpand(prefix, Cardinality(prefixUnique),
                                    Cardinality(uniqueKeywords))
                    THEN ExpandChildren(EffectiveAlphabet, prefix, queue, visited)
                    ELSE [queue |-> queue, visited |-> visited]
       IN  /\ queue' = grown.queue
           /\ visited' = grown.visited
           /\ enqueued' = enqueued \o SubSeq(grown.queue, Len(queue) + 1, Len(grown.queue))
    /\ pc' = IF BudgetReached(Cardinality(uniqueKeywords)) \/ prefixSuggestions = <<>>
             THEN "dispose"
             ELSE IF delay > 0 THEN "sleep" ELSE "loop"
    /\ UNCHANGED << cfg, stub, calc, pipe, fetch, serp, scorer, sources, uniqueKeywords,
                    sourceBreakdown,
                    totalPersisted, processedPrefixes, persistedCombinations, prefix,
                    prefixSuggestions, prefixUnique, perSourceSeen, srcIdx, pending,
                    pendingError, disposeCalls, result >>
    /\ UNCHANGED storeVars
    /\ UNCHANGED << dequeued, fetchLog, accepted, overBudget, faultAt, storeFault >>

\* Slip: the next prefix is dequeued without the delay.
ExpandWithoutSleep ==
    /\ pc = "expand"
    /\ LET grown == IF ShouldExpand(prefix, Cardinality(prefixUnique),
                                    Cardinality(uniqueKeywords))
                    THEN ExpandChildren(EffectiveAlphabet, prefix, queue, visited)
                    ELSE [queue |-> queue, visited |-> visited]
       IN  /\ queue' = grown.queue
           /\ visited' = grown.visited
           /\ enqueued' = enqueued \o SubSeq(grown.queue, Len(queue) + 1, Len(grown.queue))
    /\ pc' = IF BudgetReached(Cardinality(uniqueKeywords)) THEN "dispose"
             ELSE "loop"
    /\ UNCHANGED << cfg, stub, calc, pipe, fetch, serp, scorer, sources, uniqueKeywords,
                    sourceBreakdown, totalPersisted,
                    processedPrefixes, persistedCombinations, prefix, prefixSuggestions,
                    prefixUnique, perSourceSeen, srcIdx, pending, pendingError,
                    disposeCalls, result >>
    /\ UNCHANGED storeVars
    /\ UNCHANGED << dequeued, fetchLog, accepted, overBudget, faultAt, storeFault >>


\* Lines 601-630: expansion, then the budget check that ends the loop.
Expand ==
    /\ pc = "expand"
    /\ LET grown == IF ShouldExpand(prefix, Cardinality(prefixUnique),
                                    Cardinality(uniqueKeywords))
                    THEN ExpandChildren(EffectiveAlphabet, prefix, queue, visited)
                    ELSE [queue |-> queue, visited |-> visited]
       IN  /\ queue' = grown.queue
           /\ visited' = grown.visited
           /\ enqueued' = enqueued \o SubSeq(grown.queue, Len(queue) + 1, Len(grown.queue))
    /\ pc' = IF BudgetReached(Cardinality(uniqueKeywords)) THEN "dispose"
             ELSE IF delay > 0 THEN "sleep" ELSE "loop"
    /\ UNCHANGED << cfg, stub, calc, pipe, fetch, serp, scorer, sources, uniqueKeywords,
                    sourceBreakdown, totalPersisted,
                    processedPrefixes, persistedCombinations, prefix, prefixSuggestions,
                    prefixUnique, perSourceSeen, srcIdx, pending, pendingError,
                    disposeCalls, result >>
    /\ UNCHANGED storeVars
    /\ UNCHANGED << dequeued, fetchLog, accepted, overBudget, faultAt, storeFault >>

\* await sleep(delay)
Sleep ==
    /\ pc = "sleep"
    /\ pc' = "loop"
    /\ UNCHANGED << cfg, stub, calc, pipe, fetch, serp, scorer >>
    /\ UNCHANGED runVars
    /\ UNCHANGED storeVars
    /\ UNCHANGED histVars

\* Slip: the sources are disposed after the loop instead of in a finally block.
DisposeOnSuccessOnly ==
    /\ pc = "dispose"
    /\ disposeCalls' = [n \in SourceNames |->
                          IF n \in SeqToSet(sources) /\ ~pendingError
                          THEN disposeCalls[n] + 1
                          ELSE disposeCalls[n]]
    /\ pc' = "settle"
    /\ UNCHANGED << cfg, stub, calc, pipe, fetch, serp, scorer, sources, queue, visited,
                    uniqueKeywords, sourceBreakdown,
                    totalPersisted, processedPrefixes, persistedCombinations, prefix,
                    prefixSuggestions, prefixUnique, perSourceSeen, srcIdx, pending,
                    pendingError, result >>
    /\ UNCHANGED storeVars
    /\ UNCHANGED histVars

\* finally: dispose() is called on every source; a fault of dispose is caught and logged.
Dispose ==
    /\ pc = "dispose"
    /\ disposeCalls' = [n \in SourceNames |->
                          IF n \in SeqToSet(sources) THEN disposeCalls[n] + 1
                          ELSE disposeCalls[n]]
    /\ pc' = "settle"
    /\ UNCHANGED << cfg, stub, calc, pipe, fetch, serp, scorer, sources, queue, visited,
                    uniqueKeywords, sourceBreakdown,
                    totalPersisted, processedPrefixes, persistedCombinations, prefix,
                    prefixSuggestions, prefixUnique, perSourceSeen, srcIdx, pending,
                    pendingError, result >>
    /\ UNCHANGED storeVars
    /\ UNCHANGED histVars

\* After the finally block: the propagating fault rejects run(), else the statistics return.
Settle ==
    /\ pc = "settle"
    /\ result' = IF pendingError
                 THEN [status |-> "rejected", fault |-> "store"]
                 ELSE [ status |-> "returned",
                        stats |-> [ totalPrefixesProcessed |-> processedPrefixes,
                                    uniqueKeywordsDiscovered |-> Cardinality(uniqueKeywords),
                                    totalSuggestionsPersisted |-> totalPersisted,
                                    sourceBreakdown |-> sourceBreakdown,
                                    exhaustedBudget |-> Cardinality(uniqueKeywords) >= budget ] ]
    /\ pc' = "done"
    /\ UNCHANGED << cfg, stub, calc, pipe, fetch, serp, scorer, sources, queue, visited,
                    uniqueKeywords, sourceBreakdown,
                    totalPersisted, processedPrefixes, persistedCombinations, prefix,
                    prefixSuggestions, prefixUnique, perSourceSeen, srcIdx, pending,
                    pendingError, disposeCalls >>
    /\ UNCHANGED storeVars
    /\ UNCHANGED histVars

Next ==
    \/ BuildSourcesFault
    \/ BuildNoSources
    \/ BuildSources
    \/ QueueExhausted
    \/ Dequeue
    \/ FetchOk
    \/ FetchFault
    \/ ProcessSuggestion
    \/ SaveBegin
    \/ SaveBeginFault
    \/ SaveRow
    \/ SaveRowFault
    \/ SaveCommit
    \/ SaveCommitFault
    \/ SaveRollback
    \/ Expand
    \/ Sleep
    \/ Dispose
    \/ Settle

Spec == Init /\ [][Next]_vars

\* The guards of the actions of Next, position by position: a run that has
\* not ended has a step to take.
RunCanStep ==
    /\ pc \in {"build", "loop", "fetch", "process", "save", "saverow", "rollback",
               "expand", "sleep", "dispose", "settle", "done"}
    /\ pc = "fetch" => srcIdx \in 1..Len(sources)
    /\ pc = "process" => Len(pending) > 0

\* run() is one asynchronous function: when every awaited call settles (a
\* fetch returns or throws, a statement of the Store succeeds or fails, the
\* timer of sleep fires) its next step is taken. This is weak fairness of
\* Next written out: a step is possible exactly when the run has not ended
\* (RunCanStep), and every step that changes the state is a step of Next.
RunFairness == []<>(pc = "done") \/ []<><<TRUE>>_vars

LiveSpec == Init /\ [][Next]_vars /\ RunFairness

TypeOK ==
    /\ pc \in {"build", "loop", "fetch", "process", "save", "saverow", "rollback",
               "expand", "sleep", "dispose", "settle", "done", "idle", "batch", "undo"}
    /\ tx.open \in BOOLEAN

(***************************************************************************)
(* KeywordStore driven directly: its batch writes, one call after another  *)
(***************************************************************************)
StoreOps ==
    { "saveSuggestions", "saveHarvestedKeywords", "savePrefilteredKeywords",
      "saveSearchResults", "saveListingMetrics", "saveGoogleTrends",
      "saveOpportunitySnapshots" }

\* the batch writes that take const timestamp = Date.now()
ReadsClock(op) ==
    op \in { "saveSuggestions", "saveHarvestedKeywords", "savePrefilteredKeywords",
             "saveListingMetrics" }

\* the batch writes that return the number of records they processed
ReturnsCount(op) == op \in { "saveSuggestions", "saveHarvestedKeywords" }

SuggestionRecords ==
    { [ keyword |-> <<"a", "b">>, source |-> "etsy", prefix |-> <<"a">>, rank |-> 0,
        payload |-> <<"A", "b">> ],
      [ keyword |-> <<"a", "+">>, source |-> "google", prefix |-> <<"a">>, rank |-> 1,
        payload |-> Null ] }

HarvestedRecords ==
    { [ keyword |-> <<"A", "b">>, source |-> "category", url |-> <<"u">>,
        context |-> <<"c">> ],
      [ keyword |-> <<"a", "b">>, source |-> "trending", url |-> <<"u">>,
        context |-> Null ] }

PrefilteredRecords ==
    { [ keyword |-> <<"a", "b">>, length |-> 2, tokens |-> 1, sources |-> <<"etsy">>,
        reasons |-> <<>>, resultsEstimate |-> Null ],
      [ keyword |-> <<"a", "b">>, length |-> 2, tokens |-> 1,
        sources |-> <<"etsy", "google">>, reasons |-> <<"r">>,
        resultsEstimate |-> <<5, 1>> ] }

Listing(position, shop, price, isAd) ==
    [ position |-> position, page |-> 1, listingId |-> <<"id">>, isAd |-> isAd,
      title |-> Null, shop |-> shop, price |-> price, reviewCount |-> Null,
      favorites |-> Null, url |-> Null ]

\* The second result carries two listings with the same position.
SearchResultRecords ==
    { [ keyword |-> <<"A", "b">>,
        listings |-> << Listing(1, <<"S">>, <<10, 1>>, TRUE),
                        Listing(2, <<"s", " ">>, <<20, 1>>, FALSE) >>,
        rawHtml |-> << [page |-> <<"1">>, html |-> <<"h">>],
                       [page |-> <<"x">>, html |-> <<"h">>] >>,
        resultsCount |-> <<2, 1>>, topCards |-> <<"t">>, pagesFetched |-> 1,
        fetchedAt |-> 1 ],
      [ keyword |-> <<"a", "b">>,
        listings |-> << Listing(1, Null, Null, FALSE),
                        Listing(1, <<"t">>, <<30, 1>>, FALSE) >>,
        rawHtml |-> <<>>,
        resultsCount |-> Null, topCards |-> <<>>, pagesFetched |-> 1,
        fetchedAt |-> 2 ] }

ListingMetricsRecords ==
    { [ keyword |-> <<"a", "b">>, sampleSize |-> 2, avgFavorites |-> <<3, 1>>,
        medianFavorites |-> <<3, 1>>, reviewVelocity |-> <<1, 2>>,
        priceMedian |-> <<10, 1>>, priceIqrOverMedian |-> <<1, 2>>,
        payload |-> <<"s">> ],
      [ keyword |-> <<"c", "d">>, sampleSize |-> 0, avgFavorites |-> Null,
        medianFavorites |-> Null, reviewVelocity |-> Null, priceMedian |-> Null,
        priceIqrOverMedian |-> Null, payload |-> Null ] }

GoogleTrendsRecords ==
    { [ keyword |-> <<"a", "b">>, window |-> <<"w">>, interest |-> <<50, 1>>,
        series |-> <<"50">>, fetchedAt |-> 1 ],
      [ keyword |-> <<"a", "b">>, window |-> <<"w">>, interest |-> Null,
        series |-> Null, fetchedAt |-> 2 ] }

OpportunitySnapshotRecords ==
    { [ keyword |-> <<"a", "b">>, resultsCount |-> <<2, 1>>, adRatio |-> <<1, 2>>,
        dominanceIndex |-> <<1, 1>>, priceMedian |-> <<10, 1>>,
        priceIqrOverMedian |-> <<1, 2>>, favoritesAvg |-> <<3, 1>>,
        reviewVelocity |-> <<1, 2>>, trendsAvg |-> <<50, 1>>,
        demandScore |-> <<1, 1>>, competitionScore |-> <<0, 1>>,
        opportunityScore |-> <<1, 1>>, components |-> <<"c">>, computedTs |-> 1 ],
      [ keyword |-> <<"c", "d">>, resultsCount |-> Null, adRatio |-> Null,
        dominanceIndex |-> Null, priceMedian |-> Null, priceIqrOverMedian |-> Null,
        favoritesAvg |-> Null, reviewVelocity |-> Null, trendsAvg |-> <<50, 1>>,
        demandScore |-> <<0, 1>>, competitionScore |-> <<0, 1>>,
        opportunityScore |-> <<0, 1>>, components |-> <<"c">>, computedTs |-> 2 ] }

Records(op) ==
    CASE op = "saveSuggestions" -> SuggestionRecords
      [] op = "saveHarvestedKeywords" -> HarvestedRecords
      [] op = "savePrefilteredKeywords" -> PrefilteredRecords
      [] op = "saveSearchResults" -> SearchResultRecords
      [] op = "saveListingMetrics" -> ListingMetricsRecords
      [] op = "saveGoogleTrends" -> GoogleTrendsRecords
      [] op = "saveOpportunitySnapshots" -> OpportunitySnapshotRecords

Batches(op) == UNION { [1..n -> Records(op)] : n \in 0..MaxBatch }

\* processed: the records of the batch that were not skipped
RECURSIVE Processed(_, _, _)
Processed(op, rows, timestamp) ==
    IF rows = <<>> THEN 0
    ELSE (IF RowStatements(op, Head(rows), timestamp) = <<>> THEN 0 ELSE 1)
         + Processed(op, Tail(rows), timestamp)

ReturnValue(op, rows, timestamp) ==
    IF ReturnsCount(op) THEN <<Processed(op, rows, timestamp)>> ELSE <<>>

\* records.length === 0: the call returns at once.
StoreEmptyBatch ==
    /\ pc = "idle"
    /\ call.n < MaxCalls
    /\ \E op \in StoreOps :
          call' = [ n |-> call.n + 1, op |-> op, rows |-> <<>>, before |-> db,
                    ts |-> clock, undone |-> FALSE,
                    outcome |-> [ status |-> "returned",
                                  value |-> ReturnValue(op, <<>>, clock) ] ]
    /\ UNCHANGED << cfg, stub, calc, pipe, fetch, serp, scorer, pc, db, tx, txQueue, clock >>
    /\ UNCHANGED runVars
    /\ UNCHANGED histVars

\* Date.now() where the method reads it, then BEGIN.
StoreBegin ==
    /\ pc = "idle"
    /\ call.n < MaxCalls
    /\ \E op \in StoreOps : \E rows \in Batches(op) :
          /\ Len(rows) > 0
          /\ clock' = IF ReadsClock(op) THEN clock + 1 ELSE clock
          /\ call' = [ n |-> call.n + 1, op |-> op, rows |-> rows, before |-> db,
                       ts |-> clock', undone |-> FALSE,
                       outcome |-> [status |-> "running"] ]
          /\ txQueue' = rows
    /\ tx' = [open |-> TRUE, tables |-> db]
    /\ pc' = "batch"
    /\ UNCHANGED << cfg, stub, calc, pipe, fetch, serp, scorer, db >>
    /\ UNCHANGED runVars
    /\ UNCHANGED histVars

\* BEGIN fails: the fault leaves the method before its try block.
StoreBeginFault ==
    /\ pc = "idle"
    /\ call.n < MaxCalls
    /\ \E op \in StoreOps : \E rows \in Batches(op) :
          /\ Len(rows) > 0
          /\ clock' = IF ReadsClock(op) THEN clock + 1 ELSE clock
          /\ call' = [ n |-> call.n + 1, op |-> op, rows |-> rows, before |-> db,
                       ts |-> clock', undone |-> FALSE,
                       outcome |-> [status |-> "rejected"] ]
    /\ UNCHANGED << cfg, stub, calc, pipe, fetch, serp, scorer, pc, db, tx, txQueue >>
    /\ UNCHANGED runVars
    /\ UNCHANGED histVars

\* One iteration of the loop over the batch: every statement succeeds.
StoreRow ==
    /\ pc = "batch"
    /\ Len(txQueue) > 0
    /\ LET statements == RowStatements(call.op, Head(txQueue), call.ts)
       IN  /\ FirstFailure(tx.tables, statements) = 0
           /\ tx' = [tx EXCEPT !.tables = ExecAll(@, statements)]
    /\ txQueue' = Tail(txQueue)
    /\ UNCHANGED << cfg, stub, calc, pipe, fetch, serp, scorer, pc, db, clock, call >>
    /\ UNCHANGED runVars
    /\ UNCHANGED histVars

\* One iteration of the loop over the batch: one of its statements fails.
StoreRowFault ==
    /\ pc = "batch"
    /\ Len(txQueue) > 0
    /\ LET statements == RowStatements(call.op, Head(txQueue), call.ts)
       IN  \E failing \in FaultPoints(tx.tables, statements) :
              tx' = [tx EXCEPT !.tables = ExecAll(@, SubSeq(statements, 1, failing - 1))]
    /\ pc' = "undo"
    /\ UNCHANGED << cfg, stub, calc, pipe, fetch, serp, scorer, db, txQueue, clock, call >>
    /\ UNCHANGED runVars
    /\ UNCHANGED histVars

\* COMMIT, then the method returns.
StoreCommit ==
    /\ pc = "batch"
    /\ Len(txQueue) = 0
    /\ db' = tx.tables
    /\ tx' = NoTx
    /\ call' = [call EXCEPT !.outcome =
                  [ status |-> "returned",
                    value |-> ReturnValue(call.op, call.rows, call.ts) ]]
    /\ pc' = "idle"
    /\ UNCHANGED << cfg, stub, calc, pipe, fetch, serp, scorer, txQueue, clock >>
    /\ UNCHANGED runVars
    /\ UNCHANGED histVars

\* COMMIT fails.
StoreCommitFault ==
    /\ pc = "batch"
    /\ Len(txQueue) = 0
    /\ pc' = "undo"
    /\ UNCHANGED << cfg, stub, calc, pipe, fetch, serp, scorer >>
    /\ UNCHANGED runVars
    /\ UNCHANGED storeVars
    /\ UNCHANGED histVars

\* Slip: the catch block keeps what the transaction had written so far.
StoreRollbackKeepsWrites ==
    /\ pc = "undo"
    /\ db' = tx.tables
    /\ tx' = NoTx
    /\ txQueue' = <<>>
    /\ call' = [call EXCEPT !.undone = tx.tables # db,
                            !.outcome = [status |-> "rejected"]]
    /\ pc' = "idle"
    /\ UNCHANGED << cfg, stub, calc, pipe, fetch, serp, scorer, clock >>
    /\ UNCHANGED runVars
    /\ UNCHANGED histVars

\* catch: ROLLBACK, then the fault is thrown again.
StoreRollback ==
    /\ pc = "undo"
    /\ tx' = NoTx
    /\ txQueue' = <<>>
    /\ call' = [call EXCEPT !.undone = tx.tables # db,
                            !.outcome = [status |-> "rejected"]]
    /\ pc' = "idle"
    /\ UNCHANGED << cfg, stub, calc, pipe, fetch, serp, scorer, db, clock >>
    /\ UNCHANGED runVars
    /\ UNCHANGED histVars

\* A Store on a fresh database file, no enumerator run under way.
StoreOnlyInit ==
    /\ cfg = CHOOSE c \in Configs : TRUE
    /\ pc = "idle"
    /\ RunInit
    /\ StoreInit
    /\ scorer = NoScorer
    /\ stub = NoStub
    /\ calc = NoCalc
    /\ pipe = NoPipe
    /\ fetch = NoFetch
    /\ serp = NoSerp

StoreNext ==
    \/ StoreEmptyBatch
    \/ StoreBegin
    \/ StoreBeginFault
    \/ StoreRow
    \/ StoreRowFault
    \/ StoreCommit
    \/ StoreCommitFault
    \/ StoreRollback

StoreSpec == StoreOnlyInit /\ [][StoreNext]_vars

(***************************************************************************)
(* OpportunityScorer.compute on a Store the pipeline has filled            *)
(***************************************************************************)
\* Search results the fetch stage saved: every metadata row of the model is
\* what saveSearchResults derives from one of them.
ScoredSearchResults ==
    { [ keyword |-> <<"a", "b">>,
        listings |-> << Listing(1, <<"S">>, <<10, 1>>, TRUE),
                        Listing(2, <<"t">>, <<20, 1>>, FALSE) >>,
        rawHtml |-> <<>>, resultsCount |-> <<3, 1>>, topCards |-> <<"t">>,
        pagesFetched |-> 1, fetchedAt |-> 1 ],
      [ keyword |-> <<"c", "d">>,
        listings |-> << Listing(1, <<"S">>, Null, FALSE) >>,
        rawHtml |-> <<>>, resultsCount |-> <<0, 1>>, topCards |-> <<>>,
        pagesFetched |-> 1, fetchedAt |-> 1 ],
      [ keyword |-> <<"e", "f">>,
        listings |-> <<>>,
        rawHtml |-> <<>>, resultsCount |-> Null, topCards |-> <<>>,
        pagesFetched |-> 1, fetchedAt |-> 1 ] }

\* Listing samples: the mean and the median of the favorites are both there
\* or both missing, as the sampler computes them from the same values.
ScoredListingSamples ==
    { [ keyword |-> <<"a", "b">>, sampleSize |-> 2, avgFavorites |-> <<3, 1>>,
        medianFavorites |-> <<3, 1>>, reviewVelocity |-> <<1, 2>>,
        priceMedian |-> <<10, 1>>, priceIqrOverMedian |-> <<1, 2>>,
        payload |-> <<"s">> ],
      [ keyword |-> <<"i", "j">>, sampleSize |-> 0, avgFavorites |-> Null,
        medianFavorites |-> Null, reviewVelocity |-> Null, priceMedian |-> Null,
        priceIqrOverMedian |-> Null, payload |-> Null ] }

ScoredTrends ==
    { [ keyword |-> <<"a", "b">>, window |-> <<"w">>, interest |-> <<50, 1>>,
        series |-> <<"50">>, fetchedAt |-> 1 ],
      [ keyword |-> <<"g", "h">>, window |-> <<"w">>, interest |-> <<20, 1>>,
        series |-> <<"20">>, fetchedAt |-> 1 ],
      [ keyword |-> <<"c", "d">>, window |-> <<"w">>, interest |-> <<20, 1>>,
        series |-> <<"20">>, fetchedAt |-> 1 ],
      [ keyword |-> <<"e", "f">>, window |-> <<"w">>, interest |-> Null,
        series |-> Null, fetchedAt |-> 1 ] }

\* The sources the discovery stage got the keyword "ab" from.
DiscoveredBy(names) ==
    { [ keyword |-> <<"a", "b">>, source |-> n, prefix |-> <<"a">>, rank |-> 0,
        payload |-> Null ] : n \in names }

\* The tables after the saves of the given records.
ScoredDb(names, results, samples, trends) ==
    ExecAll(EmptyDb,
            BatchStatements("saveSuggestions", SetToSeq(DiscoveredBy(names)), 1)
            \o BatchStatements("saveSearchResults", SetToSeq(results), 1)
            \o BatchStatements("saveListingMetrics", SetToSeq(samples), 1)
            \o BatchStatements("saveGoogleTrends", SetToSeq(trends), 1))

ScoredDbs ==
    { ScoredDb(names, results, samples, trends) :
        names \in {{}, {"etsy", "google"}},
        results \in SUBSET ScoredSearchResults,
        samples \in SUBSET ScoredListingSamples,
        trends \in SUBSET ScoredTrends }

\* const [metadata, listings, trends] = await Promise.all([...])
ScorerRead ==
    /\ scorer.pc = "compute"
    /\ \E m \in Orders(db.search_results_metadata) :
       \E l \in Orders(db.keyword_listing_metrics) :
       \E t \in Orders(db.trends_cache) :
          scorer' = [scorer EXCEPT !.pc = "aggregate",
                                   !.metadata = getSearchResultsMetadata(m),
                                   !.listings = getListingMetrics(l),
                                   !.trends = getGoogleTrends(t)]
    /\ UNCHANGED << cfg, stub, calc, pipe, fetch, serp, pc >>
    /\ UNCHANGED runVars
    /\ UNCHANGED storeVars
    /\ UNCHANGED histVars

\* One of the three reads rejects: so does compute().
ScorerReadFault ==
    /\ scorer.pc = "compute"
    /\ scorer' = [scorer EXCEPT !.pc = "done",
                                !.outcome = [status |-> "rejected", fault |-> "read"]]
    /\ UNCHANGED << cfg, stub, calc, pipe, fetch, serp, pc >>
    /\ UNCHANGED runVars
    /\ UNCHANGED storeVars
    /\ UNCHANGED histVars

\* buildAggregatedMetrics and the seven series
ScorerAggregate ==
    /\ scorer.pc = "aggregate"
    /\ scorer' = [scorer EXCEPT
          !.pc = "score",
          !.aggregated = buildAggregatedMetrics(scorer.metadata, scorer.listings,
                                                scorer.trends),
          !.series = buildSeries(scorer.metadata, scorer.listings, scorer.trends)]
    /\ UNCHANGED << cfg, stub, calc, pipe, fetch, serp, pc >>
    /\ UNCHANGED runVars
    /\ UNCHANGED storeVars
    /\ UNCHANGED histVars

\* One iteration of the loop over aggregated.entries()
ScorerSnapshot ==
    /\ scorer.pc = "score"
    /\ Len(scorer.snapshots) < Len(scorer.aggregated)
    /\ clock' = clock + 1
    /\ LET entry == scorer.aggregated[Len(scorer.snapshots) + 1]
       IN  scorer' = [scorer EXCEPT !.snapshots =
              Append(@, computeSnapshot(entry.keyword, entry.metrics, scorer.series,
                                        scorer.weights, clock'))]
    /\ UNCHANGED << cfg, stub, calc, pipe, fetch, serp, pc, db, tx, txQueue, call >>
    /\ UNCHANGED runVars
    /\ UNCHANGED histVars

\* Slip: an empty result is returned without a word.
ScorerReturnSilent ==
    /\ scorer.pc = "score"
    /\ Len(scorer.snapshots) = Len(scorer.aggregated)
    /\ scorer' = [scorer EXCEPT
          !.pc = "done",
          !.snapshots = SortSnapshots(scorer.snapshots),
          !.outcome = [status |-> "returned", value |-> SortSnapshots(scorer.snapshots)]]
    /\ UNCHANGED << cfg, stub, calc, pipe, fetch, serp, pc >>
    /\ UNCHANGED runVars
    /\ UNCHANGED storeVars
    /\ UNCHANGED histVars

\* snapshots.sort(...), the warning when there is none, return snapshots
ScorerReturn ==
    /\ scorer.pc = "score"
    /\ Len(scorer.snapshots) = Len(scorer.aggregated)
    /\ scorer' = [scorer EXCEPT
          !.pc = "done",
          !.snapshots = SortSnapshots(scorer.snapshots),
          !.warnings = IF Len(scorer.snapshots) = 0 THEN @ + 1 ELSE @,
          !.outcome = [status |-> "returned", value |-> SortSnapshots(scorer.snapshots)]]
    /\ UNCHANGED << cfg, stub, calc, pipe, fetch, serp, pc >>
    /\ UNCHANGED runVars
    /\ UNCHANGED storeVars
    /\ UNCHANGED histVars

\* The metric tables as some saves left them, a scorer about to compute.
ScorerInit ==
    /\ cfg = CHOOSE c \in Configs : TRUE
    /\ pc = "idle"
    /\ RunInit
    /\ db \in ScoredDbs
    /\ tx = NoTx
    /\ txQueue = <<>>
    /\ clock = 1
    /\ call = NoCall
    /\ scorer \in {[NoScorer EXCEPT !.pc = "compute", !.weights = w] : w \in Weights}
    /\ stub = NoStub
    /\ calc = NoCalc
    /\ pipe = NoPipe
    /\ fetch = NoFetch
    /\ serp = NoSerp

ScorerNext ==
    \/ ScorerRead
    \/ ScorerReadFault
    \/ ScorerAggregate
    \/ ScorerSnapshot
    \/ ScorerReturn

ScorerSpec == ScorerInit /\ [][ScorerNext]_vars

(***************************************************************************)
(* A run of the enumerator against a stub source (end-to-end scenario A):  *)
(* alphabet a, b; no initial prefixes; budget 5; minSuggestionsToExpand 2; *)
(* one source whose answers are fixed by prefix, three distinct phrases    *)
(* for "a" and one more for "b"; the Store does not fail.                  *)
(***************************************************************************)
ScenarioBudget == 5

ScenarioDepths == {2, 3}

ScenarioConfigs ==
    { c \in [ discovery_budget : {ScenarioBudget},
              max_depth : ScenarioDepths,
              min_suggestions_to_expand : {2},
              alphabet : Alphabets,
              initial_prefixes : {<<>>},
              include_sources : [SourceNames -> BOOLEAN],
              sleep_between_requests_ms : {0} ] :
        Cardinality({n \in SourceNames : c.include_sources[n]}) = 1 }

\* The prefixes a run of depth 3 over the alphabet a, b can reach.
ScenarioPrefixes == UNION { [1..n -> {"a", "b"}] : n \in 1..3 }

AnswerForA == << <<"a", "x">>, <<"a", "y">>, <<" ", "A", "z">> >>

AnswerForB == << <<"b", "x">> >>

\* What the stub may answer for "aa" and for "ab": nothing, known phrases
\* only, new phrases only, or both.
ChildAnswers ==
    { <<>>,
      << <<"a", "x">>, <<"a", "y">> >>,
      << <<"n", "x">> >>,
      << <<"a", "x">>, <<"n", "x">>, <<"n", "y">> >>,
      << <<"n", "y">>, <<"n", "x">> >> }

\* What the stub may answer for a prefix of three letters.
DeepAnswers == { <<>>, << <<"z", "z">> >>, << <<"a", "x">>, <<"z", "z">> >> }

StubOf(forAA, forAB, deep) ==
    [ p \in ScenarioPrefixes |->
        IF p = <<"a">> THEN AnswerForA
        ELSE IF p = <<"b">> THEN AnswerForB
        ELSE IF p = <<"a", "a">> THEN forAA
        ELSE IF p = <<"a", "b">> THEN forAB
        ELSE IF Len(p) = 3 THEN deep
        ELSE <<>> ]

ScenarioStubs ==
    { StubOf(forAA, forAB, deep) :
        forAA \in ChildAnswers, forAB \in ChildAnswers, deep \in DeepAnswers }

\* The stub's fetchSuggestions(prefix) returns its answer for the prefix.
StubFetch ==
    /\ pc = "fetch"
    /\ LET resp == stub[prefix]
           name == sources[srcIdx]
           suggestions == [i \in 1..Len(resp) |->
                             [ keyword |-> resp[i], source |-> name, prefix |-> prefix,
                               rank |-> i - 1, payload |-> resp[i] ]]
           next == AfterSource(srcIdx, prefixSuggestions)
       IN  /\ pending' = suggestions
           /\ IF Len(suggestions) > 0
              THEN pc' = "process" /\ UNCHANGED srcIdx
              ELSE pc' = next.pc /\ srcIdx' = next.srcIdx
    /\ fetchLog' = Append(fetchLog, <<sources[srcIdx], prefix>>)
    /\ UNCHANGED << cfg, stub, calc, pipe, fetch, serp, scorer, sources, queue, visited,
                    uniqueKeywords,
                    sourceBreakdown, totalPersisted, processedPrefixes,
                    persistedCombinations, prefix, prefixSuggestions, prefixUnique,
                    perSourceSeen, pendingError, disposeCalls, result >>
    /\ UNCHANGED storeVars
    /\ UNCHANGED << enqueued, dequeued, accepted, overBudget, faultAt, storeFault >>

ScenarioInit ==
    /\ cfg \in ScenarioConfigs
    /\ pc = "build"
    /\ RunInit
    /\ StoreInit
    /\ scorer = NoScorer
    /\ stub \in ScenarioStubs
    /\ calc = NoCalc
    /\ pipe = NoPipe
    /\ fetch = NoFetch
    /\ serp = NoSerp

ScenarioNext ==
    \/ BuildSources
    \/ QueueExhausted
    \/ Dequeue
    \/ StubFetch
    \/ ProcessSuggestion
    \/ SaveBegin
    \/ SaveRow
    \/ SaveCommit
    \/ Expand
    \/ Dispose
    \/ Settle

ScenarioSpec == ScenarioInit /\ [][ScenarioNext]_vars

(***************************************************************************)
(* Calls of the pure helpers: computeDominanceIndex on the listings of a   *)
(* search result, robustNormalize on a value and a population.             *)
(***************************************************************************)
\* Shop texts of a listing: absent, "S", "s ", "t", blank, "u".
ShopTexts == { Null, <<"S">>, <<"s", " ">>, <<"t">>, <<" ">>, <<"u">> }

ListingLists ==
    UNION { [1..n -> {Listing(1, shop, Null, FALSE) : shop \in ShopTexts}] :
              n \in 0..MaxListings }

NaN == <<"NaN">>

Infinity == <<"Infinity">>

NormalizeValues ==
    { NaN, Infinity, <<0, 1>>, <<3, 1>>, <<4, 1>>, <<100, 1>>, <<-1, 1>>, <<1, 2>> }

SeriesNumbers == { <<0, 1>>, <<1, 1>>, <<2, 1>>, <<5, 1>>, <<1, 2>> }

SkewedSeries == << <<1, 1>>, <<2, 1>>, <<3, 1>>, <<4, 1>>, <<100, 1>> >>

SeriesLists ==
    UNION { [1..n -> SeriesNumbers] : n \in 0..MaxSeries } \cup {SkewedSeries}

HelperCalls ==
    { [pc |-> "call", fn |-> "computeDominanceIndex", args |-> <<listings>>] :
        listings \in ListingLists }
    \cup
    { [pc |-> "call", fn |-> "robustNormalize", args |-> <<value, series>>] :
        value \in NormalizeValues, series \in SeriesLists }

CallDominanceIndex ==
    /\ calc.pc = "call"
    /\ calc.fn = "computeDominanceIndex"
    /\ calc' = [ pc |-> "returned", fn |-> calc.fn, args |-> calc.args,
                 value |-> computeDominanceIndex(calc.args[1]) ]
    /\ UNCHANGED << cfg, stub, pipe, fetch, serp, scorer, pc >>
    /\ UNCHANGED runVars
    /\ UNCHANGED storeVars
    /\ UNCHANGED histVars

CallRobustNormalize ==
    /\ calc.pc = "call"
    /\ calc.fn = "robustNormalize"
    /\ calc' = [ pc |-> "returned", fn |-> calc.fn, args |-> calc.args,
                 value |-> robustNormalize(calc.args[1], calc.args[2]) ]
    /\ UNCHANGED << cfg, stub, pipe, fetch, serp, scorer, pc >>
    /\ UNCHANGED runVars
    /\ UNCHANGED storeVars
    /\ UNCHANGED histVars

HelperInit ==
    /\ cfg = CHOOSE c \in Configs : TRUE
    /\ pc = "idle"
    /\ RunInit
    /\ StoreInit
    /\ scorer = NoScorer
    /\ stub = NoStub
    /\ calc \in HelperCalls
    /\ pipe = NoPipe
    /\ fetch = NoFetch
    /\ serp = NoSerp

HelperNext ==
    \/ CallDominanceIndex
    \/ CallRobustNormalize

HelperSpec == HelperInit /\ [][HelperNext]_vars

(***************************************************************************)
(* bootstrap: the pipeline run.  The stages follow one another inside one  *)
(* try block; the database file outlives a run, so that a later run starts *)
(* from the tables the earlier runs left.                                  *)
(***************************************************************************)
MaxRuns == 2

\* The phrases the discovery sources can answer with.
PipeKeywords == { <<"a", "b">> }

\* Settings of a pipeline run: no discovery source enabled, or etsy alone.
PipeConfigs ==
    { c \in [ discovery_budget : {MaxBudget},
              max_depth : {1},
              min_suggestions_to_expand : {1},
              alphabet : Alphabets,
              initial_prefixes : {<<>>},
              include_sources : [SourceNames -> BOOLEAN],
              sleep_between_requests_ms : {0} ] :
        ~c.include_sources["google"] }

\* A run about to call enumerator.run().
\* started is Date.now() when the program starts; full says that so far every
\* component of the run has answered for every keyword.
PipeStart(run, now) ==
    [ stage |-> "enumerate", run |-> run, started |-> now, full |-> TRUE,
      passed |-> <<>>, searched |-> <<>>, fault |-> "none", scored |-> FALSE,
      ranking |-> <<>> ]

\* What the components hand to the Store for a keyword in a given run.
PipeSuggestion(keyword, run) ==
    [ keyword |-> keyword, source |-> Head(EnabledSources), prefix |-> <<Head(keyword)>>,
      rank |-> run - 1, payload |-> IF run = 1 THEN Null ELSE <<"p">> ]

PipeHarvested(keyword) ==
    [ keyword |-> keyword, source |-> "category", url |-> <<"u">>, context |-> Null ]

PipePrefiltered(candidate) ==
    [ keyword |-> candidate.keyword, length |-> Len(candidate.keyword), tokens |-> 1,
      sources |-> candidate.sources, reasons |-> <<"r">>, resultsEstimate |-> Null ]

PipeSearchResult(keyword, run, now) ==
    [ keyword |-> keyword,
      listings |-> << [Listing(1, <<"S">>, <<10 * run, 1>>, TRUE) EXCEPT !.url = <<"u">>],
                      [Listing(2, <<"t">>, <<20, 1>>, FALSE) EXCEPT !.url = <<"v">>] >>,
      rawHtml |-> <<>>, resultsCount |-> <<run, 1>>, topCards |-> <<>>,
      pagesFetched |-> 1, fetchedAt |-> now ]

PipeSample(keyword, run) ==
    [ keyword |-> keyword, sampleSize |-> 1, avgFavorites |-> <<run, 1>>,
      medianFavorites |-> <<run, 1>>, reviewVelocity |-> <<1, 2>>,
      priceMedian |-> <<10, 1>>, priceIqrOverMedian |-> <<1, 2>>, payload |-> <<"s">> ]

PipeTrend(keyword, run, now) ==
    [ keyword |-> keyword, window |-> <<"w">>, interest |-> <<50 * run, 1>>,
      series |-> <<"5">>, fetchedAt |-> now ]

\* The members of a sequence that belong to a set, in the sequence's order.
Restrict(seq, S) ==
    LET Keep(x) == x \in S
    IN  SelectSeq(seq, Keep)

\* The stages that end with a call of the Store.
StoreStages ==
    {"enumerate", "harvest", "candidates", "prefilter", "search", "sample", "trends",
     "score", "save"}

PipeUnchanged ==
    /\ UNCHANGED << cfg, stub, calc, fetch, serp, pc, tx, txQueue, call >>
    /\ UNCHANGED runVars
    /\ UNCHANGED histVars

\* enumerator.run(): with no source enabled it returns at once; otherwise
\* its batches have stored what the sources answered, which may be nothing.
PipeEnumerate ==
    /\ pipe.stage = "enumerate"
    /\ \E found \in SUBSET PipeKeywords :
          /\ (EnabledSources = <<>>) => (found = {})
          /\ db' = ExecAll(db, BatchStatements("saveSuggestions",
                   [i \in 1..Cardinality(found) |->
                       PipeSuggestion(SetToSeq(found)[i], pipe.run)],
                   clock + 1))
          /\ pipe' = [pipe EXCEPT !.stage = "harvest",
                                  !.full = (EnabledSources # <<>>) => (found = PipeKeywords)]
    /\ clock' = clock + 1
    /\ scorer' = scorer
    /\ PipeUnchanged

\* harvester.run(), which collects nothing when it is disabled or when its
\* pages fail, and saveHarvestedKeywords when it collected something
PipeHarvest ==
    /\ pipe.stage = "harvest"
    /\ \E records \in {<<>>, <<PipeHarvested(<<"c", "d">>)>>} :
          /\ db' = ExecAll(db, BatchStatements("saveHarvestedKeywords", records, clock + 1))
          /\ pipe' = [pipe EXCEPT !.stage = "prefilter", !.full = @ /\ records # <<>>]
    /\ clock' = clock + 1
    /\ scorer' = scorer
    /\ PipeUnchanged

\* getKeywordCandidates, prefilter.filter, savePrefilteredKeywords and the
\* return when no keyword passed
PipePrefilter ==
    /\ pipe.stage = "prefilter"
    /\ LET candidates == getKeywordCandidates(db)
       IN  \E keep \in SUBSET {candidates[i].keyword : i \in 1..Len(candidates)} :
              LET Passes(candidate) == candidate.keyword \in keep
                  passed == SelectSeq(candidates, Passes)
                  records == [i \in 1..Len(passed) |-> PipePrefiltered(passed[i])]
              IN  /\ db' = ExecAll(db, BatchStatements("savePrefilteredKeywords",
                                                        records, clock + 1))
                  /\ pipe' = [pipe EXCEPT
                        !.stage = IF Len(passed) = 0 THEN "aborted" ELSE "search",
                        !.full = @ /\ Len(passed) = Len(candidates),
                        !.passed = [i \in 1..Len(passed) |-> passed[i].keyword]]
    /\ clock' = clock + 1
    /\ scorer' = scorer
    /\ PipeUnchanged

\* searchFetcher.run(filteredKeywords): the keywords whose fetch failed have
\* no result (here none of them, or all but the first, or all); then
\* saveSearchResults
PipeSearch ==
    /\ pipe.stage = "search"
    /\ \E fetched \in {{pipe.passed[i] : i \in 1..Len(pipe.passed)}, {Head(pipe.passed)}, {}} :
          LET keywords == Restrict(pipe.passed, fetched)
              results == [i \in 1..Len(keywords) |->
                             PipeSearchResult(keywords[i], pipe.run, clock + 1)]
          IN  /\ db' = ExecAll(db, BatchStatements("saveSearchResults", results, clock + 1))
              /\ pipe' = [pipe EXCEPT !.stage = "sample", !.searched = keywords,
                                      !.full = @ /\ keywords = pipe.passed]
    /\ clock' = clock + 1
    /\ scorer' = scorer
    /\ PipeUnchanged

\* sampler.run(searchResults): the listing pages answer or none does; then
\* saveListingMetrics
PipeSampling ==
    /\ pipe.stage = "sample"
    /\ \E answered \in BOOLEAN :
          LET metrics == IF answered
                         THEN [i \in 1..Len(pipe.searched) |->
                                  PipeSample(pipe.searched[i], pipe.run)]
                         ELSE <<>>
          IN  /\ db' = ExecAll(db, BatchStatements("saveListingMetrics", metrics,
                                                    clock + 1))
              /\ pipe' = [pipe EXCEPT !.stage = "trends", !.full = @ /\ answered]
    /\ clock' = clock + 1
    /\ scorer' = scorer
    /\ PipeUnchanged

\* trendsClient.fetch(filteredKeywords), saveGoogleTrends, and the call of
\* scorer.compute()
PipeTrends ==
    /\ pipe.stage = "trends"
    /\ \E answered \in BOOLEAN :
          LET records == IF answered
                         THEN [i \in 1..Len(pipe.passed) |->
                                  PipeTrend(pipe.passed[i], pipe.run, clock + 1)]
                         ELSE <<>>
          IN  /\ db' = ExecAll(db, BatchStatements("saveGoogleTrends", records, clock + 1))
              /\ pipe' = [pipe EXCEPT !.stage = "score", !.scored = TRUE,
                                      !.full = @ /\ answered]
    /\ clock' = clock + 1
    /\ scorer' = [NoScorer EXCEPT !.pc = "compute"]
    /\ PipeUnchanged

\* saveOpportunitySnapshots(snapshots) and the export
PipeSaveSnapshots ==
    /\ pipe.stage = "score"
    /\ scorer.pc = "done"
    /\ scorer.outcome.status = "returned"
    /\ db' = ExecAll(db, BatchStatements("saveOpportunitySnapshots",
                                         scorer.outcome.value, clock))
    /\ pipe' = [pipe EXCEPT !.stage = "done", !.ranking = scorer.outcome.value]
    /\ scorer' = NoScorer
    /\ clock' = clock
    /\ PipeUnchanged

\* A call of the Store rejects: the batch is rolled back and the fault leaves
\* bootstrap through its catch block.
PipeStoreFault ==
    /\ \/ pipe.stage \in StoreStages \ {"score"}
       \/ pipe.stage = "score" /\ scorer.pc = "done"
    /\ pipe.stage = "enumerate" => EnabledSources # <<>>
    /\ pipe' = [pipe EXCEPT !.stage = "failed", !.fault = "store"]
    /\ scorer' = NoScorer
    /\ UNCHANGED << db, clock >>
    /\ PipeUnchanged

\* A fault outside the Store that no component catches: the creation of a
\* discovery source, or the browser context of the listing sampler.
PipeComponentFault ==
    /\ \/ pipe.stage = "enumerate" /\ EnabledSources # <<>>
       \/ pipe.stage = "sample"
    /\ pipe' = [pipe EXCEPT !.stage = "failed", !.fault = "component"]
    /\ UNCHANGED << db, clock, scorer >>
    /\ PipeUnchanged

\* The program is started again, with the same settings, on the database
\* file a completed run left; a third and later start follows a run in which
\* every component answered for every keyword.
PipeRestart ==
    /\ pipe.stage = "done"
    /\ pipe.run < MaxRuns
    /\ pipe.run > 1 => pipe.full
    /\ pipe' = PipeStart(pipe.run + 1, clock)
    /\ UNCHANGED << db, clock, scorer >>
    /\ PipeUnchanged

PipeInit ==
    /\ cfg \in PipeConfigs
    /\ pc = "idle"
    /\ RunInit
    /\ db = EmptyDb
    /\ tx = NoTx
    /\ txQueue = <<>>
    /\ clock = 1
    /\ call = NoCall
    /\ scorer = NoScorer
    /\ stub = NoStub
    /\ calc = NoCalc
    /\ pipe = PipeStart(1, 1)
    /\ fetch = NoFetch
    /\ serp = NoSerp

PipeNext ==
    \/ PipeEnumerate
    \/ PipeHarvest
    \/ PipePrefilter
    \/ PipeSearch
    \/ PipeSampling
    \/ PipeTrends
    \/ ScorerRead
    \/ ScorerReadFault
    \/ ScorerAggregate
    \/ ScorerSnapshot
    \/ ScorerReturn
    \/ PipeSaveSnapshots
    \/ PipeStoreFault
    \/ PipeComponentFault
    \/ PipeRestart

PipeSpec == PipeInit /\ [][PipeNext]_vars

(***************************************************************************)
(* Properties of the enumerator                                            *)
(***************************************************************************)
Returned == result.status = "returned"
Rejected == result.status = "rejected"
UniqueCount == Cardinality(uniqueKeywords)

\* C1: at every point of a run the number of distinct accepted keywords is at
\* most the configured discovery budget, and so is the reported
\* uniqueKeywordsDiscovered.
C1_BudgetInvariant ==
    /\ UniqueCount <= cfg.discovery_budget
    /\ Returned => result.stats.uniqueKeywordsDiscovered <= cfg.discovery_budget

\* A run that filled its budget and then dropped a further new phrase.
C1_Witness ==
    /\ Returned
    /\ overBudget
    /\ result.stats.uniqueKeywordsDiscovered = cfg.discovery_budget

\* C2: once the unique set has reached the budget, looking at a suggestion
\* whose phrase is new to the run changes neither the unique set, the
\* per-source counts nor the batch to persist; looking at a suggestion whose
\* phrase the run knows, from a source that has not recorded it, appends it
\* to the batch to persist and adds one to that source's count.
C2_BudgetGate ==
    [][ (pc = "process" /\ Len(pending) > 0 /\ UniqueCount >= cfg.discovery_budget) =>
          LET name == sources[srcIdx]
              phrase == sanitizeKeyword(Head(pending).keyword)
          IN  /\ (phrase # Null /\ phrase \notin uniqueKeywords) =>
                    /\ uniqueKeywords' = uniqueKeywords
                    /\ sourceBreakdown' = sourceBreakdown
                    /\ prefixSuggestions' = prefixSuggestions
                    /\ persistedCombinations' = persistedCombinations
                    /\ accepted' = accepted
              /\ (phrase \in uniqueKeywords /\ <<name, phrase>> \notin persistedCombinations) =>
                    /\ uniqueKeywords' = uniqueKeywords
                    /\ Len(prefixSuggestions') = Len(prefixSuggestions) + 1
                    /\ LET last == prefixSuggestions'[Len(prefixSuggestions')]
                       IN  /\ last.keyword = phrase
                           /\ last.source = name
                           /\ last.prefix = prefix
                    /\ sourceBreakdown'[name] = sourceBreakdown[name] + 1
                    /\ <<name, phrase>> \in persistedCombinations'
    ]_vars

\* With a budget of one: a new phrase was dropped, and the one known phrase
\* was recorded for both sources, the second necessarily past the budget.
C2_Witness ==
    /\ cfg.discovery_budget = 1
    /\ overBudget
    /\ \E k \in uniqueKeywords :
          /\ <<"etsy", k>> \in persistedCombinations
          /\ <<"google", k>> \in persistedCombinations
          /\ sourceBreakdown["google"] = 1

Fragments ==
    {ToLowerCase(Trim(EffectiveAlphabet[i])) : i \in 1..Len(EffectiveAlphabet)} \ {<<>>}

\* C3: the expansion step appends children to the queue only if the prefix is
\* shorter than maxDepth, at least minSuggestionsToExpand distinct keywords
\* were accepted for it and the unique count is below the budget; when the
\* three hold it appends exactly one child prefix + fragment for every
\* alphabet fragment whose child is not yet visited, and nothing else.
C3_ExpansionRule ==
    [][ pc = "expand" =>
          LET allowed == /\ Len(prefix) < cfg.max_depth
                         /\ Cardinality(prefixUnique) >= cfg.min_suggestions_to_expand
                         /\ UniqueCount < cfg.discovery_budget
              children == SubSeq(queue', Len(queue) + 1, Len(queue'))
          IN  /\ Len(queue') >= Len(queue)
              /\ SubSeq(queue', 1, Len(queue)) = queue
              /\ ~allowed => queue' = queue
              /\ allowed =>
                    /\ SeqToSet(children) = {prefix \o f : f \in Fragments} \ visited
                    /\ Cardinality(SeqToSet(children)) = Len(children)
                    /\ visited' = visited \cup SeqToSet(children)
    ]_vars

\* The prefix "a" was expanded to "aa" and "ab".
C3_Witness ==
    /\ <<"a", "a">> \in SeqToSet(enqueued)
    /\ <<"a", "b">> \in SeqToSet(enqueued)
    /\ pc = "loop"

NoDuplicates(seq) == \A i, j \in 1..Len(seq) : seq[i] = seq[j] => i = j

\* C4: every prefix is pushed to the queue at most once, shifted from it at
\* most once and fetched at most once per source.
C4_NeverRequeued ==
    /\ NoDuplicates(enqueued)
    /\ NoDuplicates(dequeued)
    /\ NoDuplicates(fetchLog)

\* C5: once the unique count has reached the budget no prefix is shifted from
\* the queue any more, only the current prefix is still fetched, the step
\* after the prefix leaves the loop with the queue as it is, and the
\* statistics returned carry exhaustedBudget = true.
C5_StopAtBudget ==
    /\ [][ UniqueCount >= cfg.discovery_budget =>
             /\ dequeued' = dequeued
             /\ fetchLog' # fetchLog => fetchLog'[Len(fetchLog')][2] = dequeued[Len(dequeued)]
             /\ pc = "expand" => (pc' = "dispose" /\ queue' = queue)
         ]_vars
    /\ [](Returned /\ UniqueCount >= cfg.discovery_budget
            => result.stats.exhaustedBudget = TRUE)

\* The run returned on budget exhaustion and left prefixes in the queue.
C5_Witness ==
    /\ Returned
    /\ UniqueCount >= cfg.discovery_budget
    /\ Len(queue) > 0
    /\ result.stats.exhaustedBudget = TRUE

\* C6: a fetch that throws adds nothing to the accepted suggestions, the
\* unique set or the counts, starts no fault of run(), and the run goes on
\* with the next source of the same prefix or, after the last source, with
\* the rest of the loop body.
C6_FetchFaultContained ==
    [][ FetchFault =>
          /\ uniqueKeywords' = uniqueKeywords
          /\ prefixSuggestions' = prefixSuggestions
          /\ accepted' = accepted
          /\ sourceBreakdown' = sourceBreakdown
          /\ pendingError' = FALSE
          /\ prefix' = prefix
          /\ IF srcIdx < Len(sources)
             THEN pc' = "fetch" /\ srcIdx' = srcIdx + 1
             ELSE pc' \in {"save", "expand"}
    ]_vars

\* The first source threw for the first prefix; the second source was then
\* queried for it, a later prefix was fetched too, and the run returned.
C6_Witness ==
    /\ Returned
    /\ faultAt = 1
    /\ Len(fetchLog) >= 3
    /\ fetchLog[2][2] = fetchLog[1][2]
    /\ fetchLog[2][1] # fetchLog[1][1]
    /\ fetchLog[3][2] # fetchLog[1][2]

\* C7: after a statement of the batch write has failed nothing more is
\* fetched, shifted from the queue or committed, run() never returns
\* statistics, and it settles rejected.
C7_StoreFaultAborts ==
    /\ [][ storeFault =>
             /\ fetchLog' = fetchLog
             /\ dequeued' = dequeued
             /\ db' = db
             /\ result'.status # "returned"
         ]_vars
    /\ [](storeFault /\ pc = "done" => Rejected)

\* The write failed while prefixes were still queued, and run() rejected.
C7_Witness ==
    /\ storeFault
    /\ Rejected
    /\ Len(queue) > 0
    /\ UniqueCount < cfg.discovery_budget

StoredFor(p) ==
    {[keyword |-> r.keyword, source |-> r.source, prefix |-> r.prefix] :
        r \in {x \in db.autocomplete_suggestions : x.prefix = p}}

AcceptedFor(p) == {a \in accepted : a.prefix = p}

Occurrences(seq, x) == Cardinality({i \in 1..Len(seq) : seq[i] = x})

\* C9: at every point of the run the committed tables hold, for each prefix
\* (taken from the queue once), either all the suggestions accepted for it or
\* none, and while a later prefix is being fetched the suggestions accepted
\* for every earlier prefix are committed.
C9_PrefixGranularity ==
    \A i \in 1..Len(dequeued) :
        Occurrences(dequeued, dequeued[i]) = 1 =>
            /\ StoredFor(dequeued[i]) = {} \/ StoredFor(dequeued[i]) = AcceptedFor(dequeued[i])
            /\ (i < Len(dequeued) /\ pc \in {"fetch", "process"}) =>
                   StoredFor(dequeued[i]) = AcceptedFor(dequeued[i])

(***************************************************************************)
(* Properties of the Store                                                 *)
(***************************************************************************)
\* A later statement t replaces or removes what statement s wrote.
Overwrites(t, s) ==
    /\ t.table = s.table
    /\ t.key \subseteq DOMAIN s.row
    /\ \A c \in t.key : t.row[c] = s.row[c]

\* The tables hold what the statements wrote, for every row no later
\* statement of the same list replaced or removed.
Held(tables, statements) ==
    \A i \in 1..Len(statements) :
        LET s == statements[i]
            later == {j \in (i + 1)..Len(statements) : Overwrites(statements[j], s)}
        IN  later = {} =>
              CASE s.mode = "insert" -> s.row \in tables[s.table]
                [] s.mode = "upsert" ->
                     \E r \in tables[s.table] :
                        \A c \in s.key \cup s.update : r[c] = s.row[c]
                [] s.mode = "delete" ->
                     \A r \in Conflicts(tables, s) :
                        \E j \in (i + 1)..Len(statements) : statements[j].row = r

\* C10: every batch write of the Store is atomic. While a batch is running
\* and after it has ended in a fault the committed tables are exactly those
\* from before the batch, and the caller gets the fault; after it has
\* returned, the tables hold every row the batch wrote.
C10_BatchAtomic ==
    /\ pc \in {"batch", "undo"} => db = call.before
    /\ call.outcome.status = "rejected" => db = call.before
    /\ call.outcome.status = "returned" =>
          Held(db, BatchStatements(call.op, call.rows, call.ts))

\* A batch of several records failed after the transaction had written
\* rows, on a database that already held rows.
C10_Witness ==
    /\ call.outcome.status = "rejected"
    /\ call.undone
    /\ Len(call.rows) > 1
    /\ db # EmptyDb

KeywordKeys(tables) == {<<r.keyword, r.source>> : r \in tables.keywords}

KeywordRows(tables, keyword, source) ==
    {r \in tables.keywords : r.keyword = keyword /\ r.source = source}

CandidateSources == {"etsy", "google", "etsy_category", "etsy_trending"}

CandidatePhrases == {r.keyword : r \in db.keywords} \cup {<<"a", "b">>, <<"c", "d">>}

\* C11: the keywords table never holds two rows for one (phrase, source);
\* upserting a pair into the committed tables leaves exactly one row for it
\* and no other row changed, and when the pair was there before the row
\* keeps its first-seen time and gets the new time as last-seen time;
\* running the batch of the current call of saveSuggestions or
\* saveHarvestedKeywords a second time on the committed tables gives the same
\* set of (phrase, source) pairs as running it once.
C11_UpsertIdempotent ==
    /\ \A r1, r2 \in db.keywords :
          (r1.keyword = r2.keyword /\ r1.source = r2.source) => r1 = r2
    /\ \A k \in CandidatePhrases : \A s \in CandidateSources :
          LET t == clock + 1
              before == KeywordRows(db, k, s)
              after == upsertKeywordSource(db, k, s, t)
              now == KeywordRows(after, k, s)
          IN  /\ Cardinality(now) = 1
              /\ after.keywords \ now = db.keywords \ before
              /\ \A c \in DOMAIN after \ {"keywords"} : after[c] = db[c]
              /\ \A r \in now : r.last_seen_ts = t
              /\ \A old \in before : \A r \in now : r.first_seen_ts = old.first_seen_ts
              /\ before = {} => \A r \in now : r.first_seen_ts = t
    /\ call.op \in {"saveSuggestions", "saveHarvestedKeywords"} =>
          LET once == ExecAll(db, BatchStatements(call.op, call.rows, clock + 1))
              twice == ExecAll(once, BatchStatements(call.op, call.rows, clock + 2))
          IN  KeywordKeys(twice) = KeywordKeys(once)

\* The second call of the Store upserted a pair the first call had inserted:
\* the row kept its first-seen time and carries a later last-seen time.
C11_Witness ==
    /\ call.n = 2
    /\ call.outcome.status = "returned"
    /\ \E r \in db.keywords :
          /\ r.first_seen_ts = 1
          /\ r.last_seen_ts = 2
    /\ Cardinality(db.keywords) = 1

(***************************************************************************)
(* Properties of the candidate read                                        *)
(***************************************************************************)
SourcesOf(tables, keyword) == {r.source : r \in {x \in tables.keywords : x.keyword = keyword}}

\* C12: getKeywordCandidates returns exactly one row for every distinct
\* phrase of the keywords table and none for another phrase, and the sources
\* of the row are, without repetition, exactly the sources whose upserts of
\* the phrase the table holds; when a run has returned and both the
\* marketplace source and the general source gave the same keyword for the
\* same prefix, there is exactly one candidate for the keyword and its sources
\* are the two of them.
C12_CandidateRead ==
    LET candidates == getKeywordCandidates(db)
        For(k) == {i \in DOMAIN candidates : candidates[i].keyword = k}
    IN  /\ \A k \in {r.keyword : r \in db.keywords} : Cardinality(For(k)) = 1
        /\ \A i \in DOMAIN candidates :
              /\ candidates[i].keyword \in {r.keyword : r \in db.keywords}
              /\ SeqToSet(candidates[i].sources) = SourcesOf(db, candidates[i].keyword)
              /\ Len(candidates[i].sources) = Cardinality(SourcesOf(db, candidates[i].keyword))
        /\ Returned =>
              \A a \in accepted : \A b \in accepted :
                 ( /\ a.keyword = b.keyword /\ a.prefix = b.prefix
                   /\ a.source = "etsy" /\ b.source = "google"
                   /\ normalizeKeyword(a.keyword) # Null ) =>
                     /\ Cardinality(For(normalizeKeyword(a.keyword))) = 1
                     /\ \A i \in For(normalizeKeyword(a.keyword)) :
                           SeqToSet(candidates[i].sources) = {"etsy", "google"}

\* A run returned after both sources had given "ab" for one prefix, and the
\* read gives one candidate "ab" with the two sources.
C12_Witness ==
    /\ Returned
    /\ \E a \in accepted : \E b \in accepted :
          /\ a.keyword = <<"a", "b">> /\ b.keyword = <<"a", "b">>
          /\ a.prefix = b.prefix
          /\ a.source = "etsy" /\ b.source = "google"
    /\ \E i \in DOMAIN getKeywordCandidates(db) :
          /\ getKeywordCandidates(db)[i].keyword = <<"a", "b">>
          /\ Len(getKeywordCandidates(db)[i].sources) = 2

\* Every candidate row of the table before is in the table after, with its
\* first-seen time, and with a last-seen time that is not earlier.
KeptIn(before, after) ==
    \A r \in before.keywords :
        \E n \in after.keywords :
            /\ n.keyword = r.keyword
            /\ n.source = r.source
            /\ n.seedless_id = r.seedless_id
            /\ n.first_seen_ts = r.first_seen_ts
            /\ n.last_seen_ts >= r.last_seen_ts

\* C13: no step of any Store operation, whether it commits or rolls back,
\* removes a (phrase, source) row from the committed keywords table or
\* changes its first-seen time, the last-seen time of a row never goes back,
\* and the rows an open transaction works on include every committed row.
C13_NeverDeleted ==
    /\ [][KeptIn(db, db')]_vars
    /\ [](tx.open => KeptIn(db, tx.tables))

\* Two calls have committed, the table holds more than one candidate row and
\* one of them was rediscovered: its last-seen time is later than its
\* first-seen time.
C13_Witness ==
    /\ call.n = 2
    /\ call.outcome.status = "returned"
    /\ Cardinality(db.keywords) > 1
    /\ \E r \in db.keywords : r.last_seen_ts > r.first_seen_ts

MetricTables == {"search_results_metadata", "keyword_listing_metrics", "trends_cache"}

OneRowPerKeyword(rows) == \A r1, r2 \in rows : r1.keyword = r2.keyword => r1 = r2

\* The rows the statements write to the table, for each keyword the row of
\* the last statement that writes the keyword.
LastWrites(statements, table) ==
    {statements[i].row : i \in
        {k \in 1..Len(statements) :
            /\ statements[k].table = table
            /\ \A j \in (k + 1)..Len(statements) :
                  statements[j].table = table =>
                      statements[j].row.keyword # statements[k].row.keyword}}

\* C14: each of the three metric tables holds at most one row per keyword,
\* in the committed tables and in those of an open transaction; after a save
\* has returned, the table holds for every keyword the save wrote exactly the
\* row of the save's last record for that keyword, every column included, and
\* for every other keyword the row it held before; a save that ended in a
\* fault leaves the three tables as they were.
C14_LastWriterWins ==
    \A T \in MetricTables :
        /\ OneRowPerKeyword(db[T])
        /\ tx.open => OneRowPerKeyword(tx.tables[T])
        /\ call.outcome.status = "rejected" => db[T] = call.before[T]
        /\ call.outcome.status = "returned" =>
              LET last == LastWrites(BatchStatements(call.op, call.rows, call.ts), T)
              IN  db[T] = last \cup {r \in call.before[T] :
                                        r.keyword \notin {w.keyword : w \in last}}

\* A second save has replaced the row an earlier save had written for the
\* same keyword in one of the metric tables.
C14_Witness ==
    /\ call.n = 2
    /\ call.outcome.status = "returned"
    /\ \E T \in MetricTables :
          \E old \in call.before[T] : \E new \in db[T] :
              /\ old.keyword = new.keyword
              /\ old # new

(***************************************************************************)
(* Properties of the scorer                                                *)
(***************************************************************************)
ScorerReturned == scorer.outcome.status = "returned"

\* The keywords that have a row in at least one of the three metric tables.
MetricKeywords ==
    {r.keyword : r \in db.search_results_metadata}
    \cup {r.keyword : r \in db.keyword_listing_metrics}
    \cup {r.keyword : r \in db.trends_cache}

EntriesFor(entries, keyword) ==
    {i \in 1..Len(entries) : entries[i].keyword = keyword}

\* C15: once the join has been built it has exactly one row for every keyword
\* that has a row in at least one of the three metric tables and no row for
\* any other keyword, and the row carries the record of each table that has
\* the keyword and nothing for a table that does not.
C15_JoinPhraseKeyed ==
    scorer.pc \in {"score", "done"} /\ scorer.outcome.status # "rejected" =>
        /\ \A k \in MetricKeywords : Cardinality(EntriesFor(scorer.aggregated, k)) = 1
        /\ \A i \in 1..Len(scorer.aggregated) :
              LET entry == scorer.aggregated[i]
              IN  /\ entry.keyword \in MetricKeywords
                  /\ "metadata" \in DOMAIN entry.metrics <=>
                        \E r \in db.search_results_metadata : r.keyword = entry.keyword
                  /\ "listing" \in DOMAIN entry.metrics <=>
                        \E r \in db.keyword_listing_metrics : r.keyword = entry.keyword
                  /\ "trends" \in DOMAIN entry.metrics <=>
                        \E r \in db.trends_cache : r.keyword = entry.keyword
                  /\ \A part \in DOMAIN entry.metrics :
                        entry.metrics[part].keyword = entry.keyword

\* The join was built from tables in which one keyword, which two discovery
\* sources produced, is in all three tables and others are in one table only.
C15_Witness ==
    /\ scorer.pc = "score"
    /\ Cardinality({r.source : r \in db.keywords}) = 2
    /\ Len(scorer.aggregated) = 5
    /\ \E i \in 1..Len(scorer.aggregated) :
          DOMAIN scorer.aggregated[i].metrics = {"metadata", "listing", "trends"}
    /\ \E i \in 1..Len(scorer.aggregated) :
          DOMAIN scorer.aggregated[i].metrics = {"listing"}

\* Where each raw field of a snapshot comes from, first choice first: the
\* part of the aggregated row and its field, the table and its column.
FieldSources ==
    [ resultsCount |-> << <<"metadata", "resultsCount", "search_results_metadata", "results_count">> >>,
      adRatio |-> << <<"metadata", "adRatio", "search_results_metadata", "ad_ratio">> >>,
      dominanceIndex |-> << <<"metadata", "dominanceIndex", "search_results_metadata", "dominance_index">> >>,
      priceMedian |-> << <<"listing", "priceMedian", "keyword_listing_metrics", "price_median">>,
                         <<"metadata", "priceMedian", "search_results_metadata", "price_median">> >>,
      priceIqrOverMedian |->
          << <<"listing", "priceIqrOverMedian", "keyword_listing_metrics", "price_iqr_over_median">>,
             <<"metadata", "priceIqrOverMedian", "search_results_metadata", "price_iqr_over_median">> >>,
      favoritesAvg |-> << <<"listing", "avgFavorites", "keyword_listing_metrics", "favorites_avg">>,
                          <<"listing", "medianFavorites", "keyword_listing_metrics", "favorites_median">> >>,
      reviewVelocity |-> << <<"listing", "reviewVelocity", "keyword_listing_metrics", "review_velocity">> >>,
      trendsAvg |-> << <<"trends", "interest", "trends_cache", "avg_value">> >> ]

\* The score component derived from a raw field (the price median has none).
ComponentOfField ==
    [ resultsCount |-> <<"competition", "resultsCount">>,
      adRatio |-> <<"competition", "adRatio">>,
      dominanceIndex |-> <<"competition", "dominance">>,
      priceIqrOverMedian |-> <<"competition", "priceDispersion">>,
      favoritesAvg |-> <<"demand", "favorites">>,
      reviewVelocity |-> <<"demand", "reviewVelocity">>,
      trendsAvg |-> <<"demand", "trends">> ]

\* What the table holds in the column for the keyword, NULL without a row.
Stored(table, keyword, column) ==
    LET rows == {r \in db[table] : r.keyword = keyword}
    IN  IF rows = {} THEN Null ELSE (CHOOSE r \in rows : TRUE)[column]

StoredValues(keyword, field) ==
    [i \in 1..Len(FieldSources[field]) |->
        Stored(FieldSources[field][i][3], keyword, FieldSources[field][i][4])]

AbsentEverywhere(keyword, field) ==
    \A i \in 1..Len(FieldSources[field]) : StoredValues(keyword, field)[i] = Null

\* The first stored value that is there (a zero is there).
FirstStored(keyword, field) ==
    LET values == StoredValues(keyword, field)
    IN  values[CHOOSE i \in 1..Len(values) :
                  /\ values[i] # Null
                  /\ \A j \in 1..(i - 1) : values[j] = Null]

\* C16: for every snapshot compute() returns and each of its eight raw
\* fields, a field that no metric table holds for the keyword (no row, or
\* NULL in the row) is null in every part of the keyword's aggregated row
\* and null in the snapshot, and the score component derived from it is 0; a
\* field that some table holds is the stored value itself, a stored zero
\* included.
C16_AbsenceIsNotZero ==
    ScorerReturned =>
    \A i \in 1..Len(scorer.snapshots) :
        LET snapshot == scorer.snapshots[i]
            k == snapshot.keyword
        IN  \A f \in DOMAIN FieldSources :
              /\ AbsentEverywhere(k, f) =>
                    /\ snapshot[f] = Null
                    /\ \A e \in EntriesFor(scorer.aggregated, k) :
                       \A n \in 1..Len(FieldSources[f]) :
                          Optional(scorer.aggregated[e].metrics,
                                   FieldSources[f][n][1], FieldSources[f][n][2]) = Null
                    /\ f \in DOMAIN ComponentOfField =>
                          snapshot.components[ComponentOfField[f][1]][ComponentOfField[f][2]]
                             = <<0, 1>>
              /\ ~AbsentEverywhere(k, f) => snapshot[f] = FirstStored(k, f)

\* compute() has returned a snapshot in which a measured ad ratio of zero
\* stands next to fields nobody measured.
C16_Witness ==
    /\ ScorerReturned
    /\ \E i \in 1..Len(scorer.snapshots) :
          /\ scorer.snapshots[i].adRatio = <<0, 1>>
          /\ scorer.snapshots[i].priceMedian = Null
          /\ scorer.snapshots[i].favoritesAvg = Null
    /\ \E i \in 1..Len(scorer.snapshots) :
          /\ scorer.snapshots[i].resultsCount = Null
          /\ scorer.snapshots[i].trendsAvg = Null

SnapshotsFor(snapshots, keyword) ==
    {i \in 1..Len(snapshots) : snapshots[i].keyword = keyword}

\* The tables hold the keyword in trends_cache only, with an interest.
TrendOnly(keyword) ==
    /\ \E r \in db.trends_cache : r.keyword = keyword /\ r.avg_value # Null
    /\ \A r \in db.search_results_metadata : r.keyword # keyword
    /\ \A r \in db.keyword_listing_metrics : r.keyword # keyword

\* The interests of trends_cache in the order compute() read them.
InterestSeries ==
    SelectSeq([i \in 1..Len(scorer.trends) |-> scorer.trends[i].interest], IsFinite)

FracLess(a, b) == ~FracLeq(b, a)

\* 1 + max(0, competitionScore), worked out from the snapshot's own field
Denominator(snapshot) ==
    IF FracLess(<<0, 1>>, snapshot.competitionScore)
    THEN FracAdd(<<1, 1>>, snapshot.competitionScore)
    ELSE <<1, 1>>

AggregationIndex(keyword) ==
    CHOOSE i \in 1..Len(scorer.aggregated) : scorer.aggregated[i].keyword = keyword

\* C19: the list compute() returns holds the snapshots of all aggregated
\* keywords, each once, with opportunityScore never increasing along the
\* list, and two snapshots with the same opportunityScore stand in the order
\* their keywords have in the join.
C19_SortedStable ==
    ScorerReturned =>
        LET value == scorer.outcome.value
        IN  /\ Len(value) = Len(scorer.aggregated)
            /\ \A e \in 1..Len(scorer.aggregated) :
                  Cardinality(SnapshotsFor(value, scorer.aggregated[e].keyword)) = 1
            /\ \A i, j \in 1..Len(value) :
                  i < j =>
                     /\ FracLeq(value[j].opportunityScore, value[i].opportunityScore)
                     /\ value[i].opportunityScore = value[j].opportunityScore =>
                           AggregationIndex(value[i].keyword)
                              < AggregationIndex(value[j].keyword)

\* compute() has returned a list in which two snapshots tie and the sort has
\* moved a snapshot in front of one that was computed before it.
C19_Witness ==
    /\ ScorerReturned
    /\ \E i, j \in 1..Len(scorer.outcome.value) :
          /\ i < j
          /\ scorer.outcome.value[i].opportunityScore
                = scorer.outcome.value[j].opportunityScore
          /\ scorer.outcome.value[i].opportunityScore # <<0, 1>>
    /\ \E i, j \in 1..Len(scorer.outcome.value) :
          /\ i < j
          /\ AggregationIndex(scorer.outcome.value[j].keyword)
                < AggregationIndex(scorer.outcome.value[i].keyword)

\* C20: when the three metric tables hold no rows, compute() raises nothing
\* of its own (it rejects only when a read of the Store rejects), no warning
\* is logged before it returns, and when it returns it returns the empty
\* list and has logged exactly one warning; with rows in the tables it
\* returns without a warning.
C20_EmptyRunWarns ==
    /\ scorer.outcome.status = "rejected" => scorer.outcome.fault = "read"
    /\ MetricKeywords = {} =>
          /\ scorer.pc \in {"aggregate", "score"} =>
                /\ scorer.warnings = 0
                /\ scorer.aggregated = <<>>
                /\ scorer.snapshots = <<>>
          /\ scorer.pc = "done" /\ scorer.outcome.status # "rejected" =>
                /\ ScorerReturned
                /\ scorer.outcome.value = <<>>
                /\ scorer.warnings = 1
    /\ (MetricKeywords # {} /\ ScorerReturned) =>
          /\ scorer.warnings = 0
          /\ scorer.outcome.value # <<>>

\* compute() has returned the empty list with one warning on a Store that
\* holds candidates and no metric row.
C20_Witness ==
    /\ ScorerReturned
    /\ MetricKeywords = {}
    /\ db.keywords # {}
    /\ scorer.outcome.value = <<>>
    /\ scorer.warnings = 1

(***************************************************************************)
(* Properties of the enumerator, continued                                 *)
(***************************************************************************)
\* C21: when no suggestion source is enabled, run() is either about to
\* start or has returned; it never rejects, it has dequeued no prefix,
\* fetched nothing, seeded no frontier and written nothing to the Store,
\* and what it returns is totalPrefixesProcessed 0, uniqueKeywordsDiscovered
\* 0, totalSuggestionsPersisted 0, every per-source count 0 and
\* exhaustedBudget false.
C21_NoSourcesReturnsZero ==
    Len(EnabledSources) = 0 =>
        /\ pc \in {"build", "done"}
        /\ result.status # "rejected"
        /\ dequeued = <<>>
        /\ enqueued = <<>>
        /\ fetchLog = <<>>
        /\ accepted = {}
        /\ db = EmptyDb
        /\ ~tx.open
        /\ clock = 0
        /\ ~storeFault
        /\ pc = "done" =>
              /\ result.status = "returned"
              /\ result.stats.totalPrefixesProcessed = 0
              /\ result.stats.uniqueKeywordsDiscovered = 0
              /\ result.stats.totalSuggestionsPersisted = 0
              /\ \A n \in SourceNames : result.stats.sourceBreakdown[n] = 0
              /\ result.stats.exhaustedBudget = FALSE

\* A run with both sources switched off has returned, with seeds configured.
C21_Witness ==
    /\ Len(EnabledSources) = 0
    /\ pc = "done"
    /\ result.status = "returned"
    /\ cfg.initial_prefixes # <<>>

Min(a, b) == IF a <= b THEN a ELSE b

\* The phrases the stub's answer for prefix p holds, as run() sanitizes them.
Yield(p) == {sanitizeKeyword(stub[p][i]) : i \in 1..Len(stub[p])} \ {Null}

\* The number of phrases the prefixes of P yield beyond those of "a" and "b".
NewFrom(P) ==
    Cardinality(UNION {Yield(p) : p \in P} \ (Yield(<<"a">>) \cup Yield(<<"b">>)))

\* The statement of scenario A for every depth of at least 2:
\* the run returns min(3 + 1 + the new phrases of "aa" and "ab", 5).
C22_ScenarioA_AnyDepth ==
    Returned =>
        result.stats.uniqueKeywordsDiscovered =
            Min(3 + 1 + NewFrom({<<"a", "a">>, <<"a", "b">>}), ScenarioBudget)

\* C22: in scenario A no child of "b" is ever queued; once "b" has been
\* taken from the queue the queue has received a, b, aa, ab in this order;
\* the run returns min(3 + 1 + n, 5) unique keywords where n counts the new
\* phrases yielded by the prefixes processed after "a" and "b"; with
\* maxDepth = 2 those prefixes are among "aa" and "ab" and the run returns
\* min(3 + 1 + the new phrases yielded by "aa" and "ab", 5).
C22_ScenarioA ==
    /\ \A i \in 1..Len(enqueued) : Len(enqueued[i]) > 1 => enqueued[i][1] = "a"
    /\ Len(dequeued) >= 2 =>
          /\ Len(enqueued) >= 4
          /\ SubSeq(enqueued, 1, 4) = << <<"a">>, <<"b">>, <<"a", "a">>, <<"a", "b">> >>
    /\ result.status # "rejected"
    /\ Returned =>
          /\ Len(dequeued) >= 2
          /\ result.stats.uniqueKeywordsDiscovered =
                Min(3 + 1 + NewFrom(SeqToSet(dequeued) \ {<<"a">>, <<"b">>}),
                    ScenarioBudget)
          /\ maxDepth = 2 =>
                /\ SeqToSet(dequeued) \subseteq SeqToSet(SubSeq(enqueued, 1, 4))
                /\ result.stats.uniqueKeywordsDiscovered =
                      Min(3 + 1 + NewFrom({<<"a", "a">>, <<"a", "b">>}), ScenarioBudget)

\* A run of depth 3 has returned with the budget used up by a phrase that a
\* prefix of three letters yielded.
C22_Witness ==
    /\ Returned
    /\ maxDepth = 3
    /\ Len(dequeued) > 4
    /\ result.stats.uniqueKeywordsDiscovered = ScenarioBudget
    /\ NewFrom({<<"a", "a">>, <<"a", "b">>}) = 0

(***************************************************************************)
(* Properties of the dominance index                                       *)
(***************************************************************************)
DominanceReturned == calc.pc = "returned" /\ calc.fn = "computeDominanceIndex"

\* The shop identities that resolve among the listings: lower case, trimmed,
\* not empty.
ResolvedShops(listings) ==
    {ShopKey(listings[i]) : i \in 1..Len(listings)} \ {Null, <<>>}

SlotsOf(shop, listings) ==
    Cardinality({i \in 1..Len(listings) : ShopKey(listings[i]) = shop})

EqualShares(listings) ==
    \A s, t \in ResolvedShops(listings) : SlotsOf(s, listings) = SlotsOf(t, listings)

\* The statement that n shops with equal shares give 1/n, for every sample
\* with a resolvable shop.
C23_EqualSharesAnySample ==
    DominanceReturned =>
        LET listings == calc.args[1]
            shops == ResolvedShops(listings)
        IN  (shops # {} /\ EqualShares(listings)) =>
                calc.value = Frac(1, Cardinality(shops))

\* C23: the index is absent exactly when no listing has a resolvable shop;
\* otherwise it is a number above 0 and at most 1; it is 1 exactly when one
\* shop holds every sampled slot; for n shops holding k slots each of a
\* sample of N it is n*k*k/(N*N), which is 1/n when every sampled listing
\* has a resolvable shop.
C23_DominanceBounds ==
    DominanceReturned =>
        LET listings == calc.args[1]
            hhi == calc.value
            shops == ResolvedShops(listings)
            total == Len(listings)
        IN  /\ hhi = Null <=> shops = {}
            /\ shops # {} =>
                  /\ IsFinite(hhi)
                  /\ ~FracLeq(hhi, <<0, 1>>)
                  /\ FracLeq(hhi, <<1, 1>>)
                  /\ hhi = <<1, 1>> <=>
                        \E s \in shops : SlotsOf(s, listings) = total
                  /\ EqualShares(listings) =>
                        LET n == Cardinality(shops)
                            k == SlotsOf(CHOOSE s \in shops : TRUE, listings)
                        IN  /\ hhi = Frac(n * k * k, total * total)
                            /\ n * k = total => hhi = Frac(1, n)

\* Two shops with two listings each, every listing resolvable: the index is 1/2.
C23_Witness ==
    /\ DominanceReturned
    /\ Len(calc.args[1]) = 4
    /\ Cardinality(ResolvedShops(calc.args[1])) = 2
    /\ EqualShares(calc.args[1])
    /\ \A i \in 1..4 : ShopKey(calc.args[1][i]) \notin {Null, <<>>}
    /\ calc.value = <<1, 2>>

(***************************************************************************)
(* Properties of the robust normalization                                  *)
(***************************************************************************)
NormalizeReturned == calc.pc = "returned" /\ calc.fn = "robustNormalize"

\* C24: robustNormalize of any value on the empty population is 0;
\* robustNormalize of NaN (or of any value that is not finite) on any
\* population is 0; and on the population 1, 2, 3, 4, 100, whose median is
\* 3, the value 3 gives 0, the value 4 gives more than 0 and the value 100
\* gives more than the value 4 does.
C24_NormalizeEdgeCases ==
    NormalizeReturned =>
        LET value == calc.args[1]
            series == calc.args[2]
        IN  /\ series = <<>> => calc.value = <<0, 1>>
            /\ ~IsFinite(value) => calc.value = <<0, 1>>
            /\ series = SkewedSeries =>
                  /\ median(series) = <<3, 1>>
                  /\ value = <<3, 1>> => calc.value = <<0, 1>>
                  /\ value = <<4, 1>> =>
                        /\ FracLess(<<0, 1>>, calc.value)
                        /\ FracLess(calc.value, robustNormalize(<<100, 1>>, series))
                  /\ value = <<100, 1>> =>
                        FracLess(robustNormalize(<<4, 1>>, series), calc.value)

\* The value 100 was normalized on the population 1, 2, 3, 4, 100.
C24_Witness ==
    /\ NormalizeReturned
    /\ calc.args = << <<100, 1>>, SkewedSeries >>
    /\ calc.value = <<97, 2>>

\* The spread of a population: its interquartile range, or its median
\* absolute deviation when it has no interquartile range.
SpreadOf(series) ==
    IF iqr(series) # Null THEN iqr(series) ELSE medianAbsoluteDeviation(series)

\* C30: for a finite value v and a non-empty population S of finite numbers
\* robustNormalize returns (v - median(S)) / spread(S), where spread(S) is
\* the interquartile range of S, or the median absolute deviation of S when
\* S has no interquartile range (S has one element); when that spread is 0
\* it returns v unchanged.
C30_NormalizeFormula ==
    NormalizeReturned =>
        LET value == calc.args[1]
            series == calc.args[2]
            spread == SpreadOf(series)
        IN  (IsFinite(value) /\ series # <<>>) =>
                /\ IsFinite(spread)
                /\ iqr(series) = Null <=> Len(series) = 1
                /\ spread # <<0, 1>> =>
                      calc.value = FracDiv(FracSub(value, median(series)), spread)
                /\ spread = <<0, 1>> => calc.value = value

\* A value was normalized on a population whose interquartile range is not
\* 0 and differs from its median absolute deviation.
C30_Witness ==
    /\ NormalizeReturned
    /\ IsFinite(calc.args[1])
    /\ Len(calc.args[2]) = 3
    /\ iqr(calc.args[2]) # <<0, 1>>
    /\ iqr(calc.args[2]) # medianAbsoluteDeviation(calc.args[2])
    /\ calc.value # calc.args[1]
    /\ calc.value # <<0, 1>>

\* C25: every run of the enumerator comes to its end; a run that has not
\* ended always has a step to take; and a run that has
\* left the loop without a fault, and a run that has returned its
\* statistics after creating its sources, has an empty queue or has reached
\* the budget of unique keywords.
C25_Terminates ==
    /\ <>(pc = "done")
    /\ []RunCanStep
    /\ []((pc \in {"dispose", "settle"} /\ ~pendingError) =>
              (Len(queue) = 0 \/ UniqueCount >= budget))
    /\ []((Returned /\ Len(sources) > 0) =>
              (Len(queue) = 0 \/ UniqueCount >= budget))

\* A run has returned on budget exhaustion with prefixes still queued,
\* after one of its fetches had thrown.
C25_Witness ==
    /\ Returned
    /\ Len(queue) > 0
    /\ UniqueCount >= budget
    /\ faultAt > 0

(***************************************************************************)
(* Properties of the pipeline run                                          *)
(***************************************************************************)
EndedBeforeScoring == pipe.stage \in {"aborted", "failed"} /\ ~pipe.scored

\* C26: a pipeline run that ends before the scoring stage has met a fault of
\* the Store or has no discovery source enabled; every other run reaches
\* scorer.compute().
C26_OnlyFaultOrNoSourceEndsEarly ==
    EndedBeforeScoring => (pipe.fault = "store" \/ EnabledSources = <<>>)

(***************************************************************************)
(* Properties of the enumerator's batches                                  *)
(***************************************************************************)
\* The (phrase, source) pairs the current prefix's responses had accepted:
\* they passed the normalizer, the per-source check and the budget gate.
AcceptedPairs == UNION {{<<k, n>> : k \in perSourceSeen[n]} : n \in SourceNames}

InBatch(k, n) ==
    \E i \in 1..Len(prefixSuggestions) :
        /\ prefixSuggestions[i].keyword = k
        /\ prefixSuggestions[i].source = n
        /\ prefixSuggestions[i].prefix = prefix

\* C27: when the sources have answered a prefix, every (phrase, source) pair
\* accepted from their responses is in the prefix's batch, tagged with the
\* prefix, or was put in an earlier batch under the same prefix.
C27_AcceptedAreInTheBatch ==
    pc \in {"save", "expand"} =>
        \A pair \in AcceptedPairs :
            \/ InBatch(pair[1], pair[2])
            \/ [keyword |-> pair[1], source |-> pair[2], prefix |-> prefix] \in accepted

(***************************************************************************)
(* Properties of the pipeline's writes                                     *)
(***************************************************************************)
SameSuggestion(x, r) ==
    x.keyword = r.keyword /\ x.source = r.source /\ x.prefix = r.prefix

\* C28: when a run saves a suggestion whose (keyword, source, prefix) is
\* already in the Store, the table still holds one row for it, and that row
\* differs from the old one in rank, payload and fetched timestamp only,
\* which carry what the run saved.
C28_ResaveUpdatesInPlace ==
    [][ (pipe.stage = "enumerate" /\ pipe'.stage = "harvest") =>
          \A r \in db.autocomplete_suggestions :
              LET after == {x \in db'.autocomplete_suggestions : SameSuggestion(x, r)}
              IN  /\ Cardinality(after) = 1
                  /\ \A x \in after :
                        \/ x = r
                        \/ /\ x.fetched_ts = clock'
                           /\ x.rank = PipeSuggestion(x.keyword, pipe.run).rank
                           /\ x.payload = toJson(PipeSuggestion(x.keyword, pipe.run).payload)
                           /\ DOMAIN x = DOMAIN r ]_vars

C28_Witness ==
    /\ pipe.stage = "harvest"
    /\ pipe.run = 2
    /\ \E x \in db.autocomplete_suggestions :
          /\ x.rank = 1
          /\ x.fetched_ts = clock
          /\ x.payload = toJson(<<"p">>)
    /\ Cardinality(db.autocomplete_suggestions) = 1

\* The snapshot table as saveOpportunitySnapshots fills an empty one.
SavedAlone(snapshots) ==
    ExecAll([db EXCEPT !.search_snapshot = {}],
            BatchStatements("saveOpportunitySnapshots", snapshots, clock)).search_snapshot

\* C29: when a run has saved its snapshots, the snapshot table holds the rows
\* of that run's snapshots and no other: every row was computed after the
\* run started, there is one row per keyword of the metric tables, and the
\* table is what saving the run's snapshots alone would give.
C29_SnapshotsRecomputedWholesale ==
    pipe.stage = "done" =>
        /\ \A row \in db.search_snapshot : row.computed_ts > pipe.started
        /\ {row.keyword : row \in db.search_snapshot} = MetricKeywords
        /\ Cardinality(db.search_snapshot) = Cardinality(MetricKeywords)
        /\ db.search_snapshot = SavedAlone(pipe.ranking)

\* A second run has rescored a keyword it fetched nothing for.
C29_Witness ==
    /\ pipe.stage = "done"
    /\ pipe.run = 2
    /\ Len(pipe.ranking) = 2
    /\ \E row \in db.search_snapshot :
          \A r \in db.search_results_metadata :
              r.keyword = row.keyword => r.fetched_ts < pipe.started

(***************************************************************************)
(* Properties of the enumerator's schedule                                 *)
(***************************************************************************)
\* The fetches of a run that takes the given prefixes one after another and
\* asks the sources in their order for each.
RECURSIVE SequentialFetches(_, _)
SequentialFetches(prefixes, names) ==
    IF prefixes = <<>> THEN <<>>
    ELSE [i \in 1..Len(names) |-> <<names[i], Head(prefixes)>>]
         \o SequentialFetches(Tail(prefixes), names)

\* C31: the fetches made so far are the beginning of the sequential schedule
\* of the prefixes dequeued so far (each prefix asks etsy, then google, and
\* all the sources were asked for a prefix before the next one is dequeued);
\* a prefix is dequeued at the top of the loop only; and the top of the loop
\* is reached again from the end of a prefix through the sleep, except when
\* the configured delay is 0.
C31_OneAtATime ==
    /\ [](/\ Len(fetchLog) <= Len(dequeued) * Len(sources)
          /\ fetchLog = SubSeq(SequentialFetches(dequeued, sources), 1, Len(fetchLog))
          /\ Len(sources) <= Len(EnabledSources)
          /\ sources = SubSeq(EnabledSources, 1, Len(sources))
          /\ fetchLog # <<>> => sources = EnabledSources)
    /\ [][ /\ dequeued' # dequeued =>
                /\ pc = "loop"
                /\ Len(fetchLog) = Len(dequeued) * Len(sources)
           /\ (pc' = "loop" /\ pc # "loop") => pc \in {"build", "expand", "sleep"}
           /\ (pc = "expand" /\ pc' = "loop") => delay = 0
           /\ pc = "sleep" => (pc' = "loop" /\ dequeued' = dequeued /\ fetchLog' = fetchLog) ]_vars

C31_Witness ==
    /\ pc = "loop"
    /\ delay > 0
    /\ Len(dequeued) = 1
    /\ Len(fetchLog) = 1
    /\ Len(queue) > 0

(***************************************************************************)
(* The suggestion sources: one fetchSuggestions call                       *)
(***************************************************************************)
\* JSON values as a response body parses to them.
JNull == [t |-> "null", s |-> <<>>, items |-> <<>>, entries |-> <<>>, n |-> 0]
JNum(n) == [t |-> "num", s |-> <<>>, items |-> <<>>, entries |-> <<>>, n |-> n]
JStr(s) == [t |-> "str", s |-> s, items |-> <<>>, entries |-> <<>>, n |-> 0]
JArr(items) == [t |-> "arr", s |-> <<>>, items |-> items, entries |-> <<>>, n |-> 0]
\* Object.entries order: a list of <<key, value>>
JObj(entries) == [t |-> "obj", s |-> <<>>, items |-> <<>>, entries |-> entries, n |-> 0]

KeyQuery == <<"q", "u", "e", "r", "y">>
KeyValue == <<"v", "A", "l", "u", "e">>
KeyId == <<"i", "d">>
KeyResults == <<"r", "e", "s", "u", "l", "t", "s">>
KeyOriginal == <<"o", "r", "i", "g", "i", "n", "a", "l">>

Contains(s, w) == \E i \in 1..(Len(s) - Len(w) + 1) : SubSeq(s, i, i + Len(w) - 1) = w

StartsWith(s, w) == Len(s) >= Len(w) /\ SubSeq(s, 1, Len(w)) = w

\* /query|phrase|value|text|string|term|title/i
CANDIDATE_KEY_PATTERN(s) ==
    \E w \in { KeyQuery, <<"p", "h", "r", "a", "s", "e">>, <<"v", "a", "l", "u", "e">>,
               <<"t", "e", "x", "t">>, <<"s", "t", "r", "i", "n", "g">>,
               <<"t", "e", "r", "m">>, <<"t", "i", "t", "l", "e">> } :
        Contains(ToLowerCase(s), w)

\* /[a-z0-9]/i
IsAsciiAlnum(c) == c \in LowerLetters \cup {"A", "1", "2"}

Reverse(s) == [i \in 1..Len(s) |-> s[Len(s) + 1 - i]]

\* The largest number of candidates a source is configured to return.
MaxResults == 2

FetchPrefixes == { <<"a">>, <<"a", "b">> }

EtsyA == <<"e", "t", "s", "y", " ", "a">>

\* Bodies an endpoint may answer with, once parsed.
Payloads ==
    { JNull,
      JObj(<<>>),
      JStr(<<"x">>),
      JArr(<< JStr(<<"a", "b">>), JStr(<<"A", "b", " ">>), JStr(<<"a", "c">>) >>),
      JObj(<< <<KeyResults,
                JArr(<< JObj(<< <<KeyQuery, JStr(<<"a", "b">>)>> >>),
                        JObj(<< <<KeyValue, JStr(<<"A", "B">>)>>, <<KeyId, JNum(1)>> >>),
                        JObj(<< <<KeyQuery, JStr(<<"b", "a">>)>> >>),
                        JObj(<< <<KeyQuery, JStr(<<"a", " ", " ", "b">>)>> >>) >>)>>,
              <<KeyId, JStr(<<"a", " ", "t", "e", "r", "m">>)>> >>),
      JArr(<< JStr(EtsyA) >>),
      JArr(<< JStr(EtsyA), JObj(<<>>) >>),
      JArr(<< JStr(EtsyA), JArr(<<>>) >>),
      JArr(<< JStr(EtsyA),
              JArr(<< JStr(EtsyA \o <<"b">>), JStr(<<"E", "t", "s", "y", " ", "A", "B">>),
                      JNum(1), JStr(<<"a", "b">>), JStr(EtsyA), JStr(<<" ">>),
                      JStr(<<"a", "c">>) >>) >>) }

addCandidate(results, seen, value, raw, pfx, maxResults) ==
    LET normalized == Nfkc(CollapseSpaces(Trim(value)))
        normalizedLower == ToLowerCase(normalized)
        same == [results |-> results, seen |-> seen]
    IN  IF Len(results) >= maxResults THEN same
        ELSE IF Len(normalized) < 2 THEN same
        ELSE IF ~StartsWith(normalizedLower, ToLowerCase(pfx)) THEN same
        ELSE IF ~(\E i \in 1..Len(normalizedLower) : IsAsciiAlnum(normalizedLower[i]))
             THEN same
        ELSE IF normalizedLower \in seen THEN same
        ELSE [results |-> Append(results, [keyword |-> normalized, payload |-> raw]),
              seen |-> seen \cup {normalizedLower}]

\* the loop over Object.entries(record) of extractCandidates
RECURSIVE VisitEntries(_, _, _, _, _)
VisitEntries(entries, record, st, pfx, maxResults) ==
    IF entries = <<>> THEN st
    ELSE LET key == Head(entries)[1]
             value == Head(entries)[2]
             added == addCandidate(st.results, st.seen, value.s, record, pfx, maxResults)
         IN  VisitEntries(Tail(entries), record,
                 IF value.t = "str"
                    /\ (CANDIDATE_KEY_PATTERN(key) \/ CANDIDATE_KEY_PATTERN(value.s))
                 THEN [st EXCEPT !.results = added.results, !.seen = added.seen]
                 ELSE IF value.t \in {"obj", "arr"}
                      THEN [st EXCEPT !.stack = Append(@, value)]
                      ELSE st,
                 pfx, maxResults)

\* the while loop of extractCandidates; the top of the stack is its last element
RECURSIVE WalkStack(_, _, _)
WalkStack(st, pfx, maxResults) ==
    IF st.stack = <<>> \/ Len(st.results) >= maxResults THEN st.results
    ELSE LET current == st.stack[Len(st.stack)]
             popped == [st EXCEPT !.stack = SubSeq(@, 1, Len(@) - 1)]
             added == addCandidate(st.results, st.seen, current.s, current, pfx,
                                   maxResults)
         IN  WalkStack(
                 IF current.t = "str"
                 THEN [popped EXCEPT !.results = added.results, !.seen = added.seen]
                 ELSE IF current.t = "arr"
                      THEN [popped EXCEPT !.stack = @ \o Reverse(current.items)]
                      ELSE IF current.t = "obj"
                           THEN VisitEntries(current.entries, current, popped, pfx, maxResults)
                           ELSE popped,
                 pfx, maxResults)

extractCandidates(payload, pfx, maxResults) ==
    LET results == WalkStack([stack |-> <<payload>>, results |-> <<>>, seen |-> {}],
                             pfx, maxResults)
    IN  SubSeq(results, 1, IF Len(results) < maxResults THEN Len(results) ELSE maxResults)

normalizeGoogleSuggestion(value) ==
    LET trimmed == Trim(value)
        normalized == Nfkc(CollapseSpaces(trimmed))
    IN  IF trimmed = <<>> THEN Null
        ELSE IF Len(normalized) < 2 THEN Null
        ELSE normalized

\* the keyword the loop of the search-engine source makes of one item, or Null
GoogleKeyword(item) ==
    LET normalized == normalizeGoogleSuggestion(item)
        stripped == IF StartsWith(ToLowerCase(normalized), <<"e", "t", "s", "y", " ">>)
                    THEN SubSeq(normalized, 6, Len(normalized))
                    ELSE normalized
        again == normalizeGoogleSuggestion(stripped)
    IN  IF normalized = Null THEN Null
        ELSE IF again = Null THEN normalized ELSE again

\* the loop over rawSuggestions: the cap is looked at after each push
RECURSIVE GoogleLoop(_, _, _, _, _)
GoogleLoop(items, suggestions, seen, pfx, maxResults) ==
    IF items = <<>> THEN suggestions
    ELSE LET item == Head(items)
             finalKeyword == GoogleKeyword(item.s)
             pushed == Append(suggestions,
                          [keyword |-> finalKeyword, source |-> "google", prefix |-> pfx,
                           rank |-> Len(suggestions),
                           payload |-> JObj(<< <<KeyOriginal, item>> >>)])
         IN  IF item.t # "str" THEN GoogleLoop(Tail(items), suggestions, seen, pfx,
                                               maxResults)
             ELSE IF finalKeyword = Null
                  THEN GoogleLoop(Tail(items), suggestions, seen, pfx, maxResults)
             ELSE IF ToLowerCase(finalKeyword) \in seen
                  THEN GoogleLoop(Tail(items), suggestions, seen, pfx, maxResults)
             ELSE IF Len(pushed) >= maxResults THEN pushed
             ELSE GoogleLoop(Tail(items), pushed, seen \cup {ToLowerCase(finalKeyword)},
                             pfx, maxResults)

\* what the search-engine source makes of a parsed body
GoogleSuggestions(payload, pfx, maxResults) ==
    IF payload.t # "arr" THEN <<>>
    ELSE IF Len(payload.items) < 2 THEN <<>>
    ELSE IF payload.items[2].t # "arr" THEN <<>>
    ELSE GoogleLoop(payload.items[2].items, <<>>, {}, pfx, maxResults)

\* candidates.map of the marketplace source
EtsySuggestions(candidates, pfx) ==
    [i \in 1..Len(candidates) |->
        [keyword |-> candidates[i].keyword, source |-> "etsy", prefix |-> pfx,
         rank |-> i - 1, payload |-> candidates[i].payload]]

EtsyEndpoints == 3

FetchCalls ==
    { [pc |-> "request", source |-> s, prefix |-> p, maxResults |-> m, endpoint |-> 1,
       queried |-> <<>>, outcome |-> [status |-> "none", value |-> <<>>]] :
          s \in SourceNames, p \in FetchPrefixes, m \in 0..MaxResults }

Queried(answer, candidates) ==
    Append(fetch.queried,
           [endpoint |-> fetch.endpoint, answer |-> answer, candidates |-> candidates])

FetchUnchanged ==
    /\ UNCHANGED << cfg, stub, calc, pipe, serp, pc, scorer >>
    /\ UNCHANGED runVars
    /\ UNCHANGED storeVars
    /\ UNCHANGED histVars

\* A marketplace source that gives up at the first endpoint that fails.
EtsyGiveUp(answer) ==
    /\ fetch' = [fetch EXCEPT !.pc = "done", !.queried = Queried(answer, 0),
                              !.outcome = [status |-> "returned", value |-> <<>>]]
    /\ FetchUnchanged

\* the marketplace source goes on to its next endpoint
EtsyContinue(answer) ==
    /\ fetch' = [fetch EXCEPT !.endpoint = @ + 1, !.queried = Queried(answer, 0)]
    /\ FetchUnchanged

\* context.get rejects (network error, timeout): the catch block logs it
EtsyGetFault ==
    /\ fetch.pc = "request" /\ fetch.source = "etsy" /\ fetch.endpoint <= EtsyEndpoints
    /\ EtsyContinue("fault")

\* the endpoint answers with a non-success status
EtsyNotOk ==
    /\ fetch.pc = "request" /\ fetch.source = "etsy" /\ fetch.endpoint <= EtsyEndpoints
    /\ EtsyContinue("status")

\* response.json() rejects; whether response.text() then answers or rejects,
\* the loop goes on
EtsyNotJson ==
    /\ fetch.pc = "request" /\ fetch.source = "etsy" /\ fetch.endpoint <= EtsyEndpoints
    /\ EtsyContinue("body")

\* the endpoint answers with a JSON body
EtsyJson ==
    /\ fetch.pc = "request" /\ fetch.source = "etsy" /\ fetch.endpoint <= EtsyEndpoints
    /\ \E payload \in Payloads :
          LET candidates == extractCandidates(payload, fetch.prefix, fetch.maxResults)
          IN  IF Len(candidates) = 0
              THEN fetch' = [fetch EXCEPT !.endpoint = @ + 1,
                                          !.queried = Queried("json", 0)]
              ELSE fetch' = [fetch EXCEPT
                       !.pc = "done",
                       !.queried = Queried("json", Len(candidates)),
                       !.outcome = [status |-> "returned",
                                    value |-> EtsySuggestions(candidates, fetch.prefix)]]
    /\ FetchUnchanged

\* no endpoint is left
EtsyExhausted ==
    /\ fetch.pc = "request" /\ fetch.source = "etsy" /\ fetch.endpoint > EtsyEndpoints
    /\ fetch' = [fetch EXCEPT !.pc = "done",
                              !.outcome = [status |-> "returned", value |-> <<>>]]
    /\ FetchUnchanged

\* A search-engine source that lets a network fault through to its caller.
GoogleRethrow(answer, value) ==
    /\ fetch' = [fetch EXCEPT !.pc = "done",
                              !.queried = Queried(answer, Len(value)),
                              !.outcome = [status |-> IF answer = "fault" THEN "threw"
                                                      ELSE "returned",
                                           value |-> value]]
    /\ FetchUnchanged

\* the search-engine source returns what it made of the answer
GoogleReturn(answer, value) ==
    /\ fetch' = [fetch EXCEPT !.pc = "done",
                              !.queried = Queried(answer, Len(value)),
                              !.outcome = [status |-> "returned", value |-> value]]
    /\ FetchUnchanged

GoogleGetFault ==
    /\ fetch.pc = "request" /\ fetch.source = "google"
    /\ GoogleReturn("fault", <<>>)

GoogleNotOk ==
    /\ fetch.pc = "request" /\ fetch.source = "google"
    /\ GoogleReturn("status", <<>>)

\* response.json() rejects; if response.text() rejects too, the outer catch
\* block returns the empty list as well
GoogleNotJson ==
    /\ fetch.pc = "request" /\ fetch.source = "google"
    /\ GoogleReturn("body", <<>>)

GoogleJson ==
    /\ fetch.pc = "request" /\ fetch.source = "google"
    /\ \E payload \in Payloads :
          GoogleReturn("json", GoogleSuggestions(payload, fetch.prefix, fetch.maxResults))

SourceInit ==
    /\ cfg = CHOOSE c \in Configs : TRUE
    /\ pc = "idle"
    /\ RunInit
    /\ StoreInit
    /\ scorer = NoScorer
    /\ stub = NoStub
    /\ calc = NoCalc
    /\ pipe = NoPipe
    /\ fetch \in FetchCalls
    /\ serp = NoSerp

SourceNext ==
    \/ EtsyGetFault
    \/ EtsyNotOk
    \/ EtsyNotJson
    \/ EtsyJson
    \/ EtsyExhausted
    \/ GoogleGetFault
    \/ GoogleNotOk
    \/ GoogleNotJson
    \/ GoogleJson

SourceSpec == SourceInit /\ [][SourceNext]_vars

(***************************************************************************)
(* Properties of the suggestion sources                                    *)
(***************************************************************************)
EtsyCall == fetch.pc # "none" /\ fetch.source = "etsy"

FetchReturned == fetch.pc = "done" /\ fetch.outcome.status = "returned"

\* C32: the marketplace source queries its endpoints in their fixed order,
\* each at most once; it goes on to the next endpoint exactly when the one
\* before yielded no candidate (a fault, a non-success status, a body that is
\* not JSON, or a body without candidates); the first endpoint that yields
\* candidates ends the call and supplies the whole result; and the call
\* returns the empty list only after all endpoints have been queried.
C32_FixedFallbackOrder ==
    EtsyCall =>
        /\ Len(fetch.queried) <= EtsyEndpoints
        /\ \A i \in 1..Len(fetch.queried) :
              /\ fetch.queried[i].endpoint = i
              /\ i < Len(fetch.queried) => fetch.queried[i].candidates = 0
              /\ fetch.queried[i].answer \in {"fault", "status", "body"}
                    => fetch.queried[i].candidates = 0
        /\ fetch.pc = "request" =>
              /\ fetch.endpoint = Len(fetch.queried) + 1
              /\ \A i \in 1..Len(fetch.queried) : fetch.queried[i].candidates = 0
        /\ fetch.pc = "done" =>
              /\ fetch.outcome.status = "returned"
              /\ IF fetch.outcome.value = <<>>
                 THEN /\ Len(fetch.queried) = EtsyEndpoints
                      /\ \A i \in 1..EtsyEndpoints : fetch.queried[i].candidates = 0
                 ELSE /\ fetch.queried # <<>>
                      /\ fetch.queried[Len(fetch.queried)].answer = "json"
                      /\ fetch.queried[Len(fetch.queried)].candidates
                            = Len(fetch.outcome.value)

C32_Witness ==
    /\ EtsyCall /\ FetchReturned
    /\ Len(fetch.queried) = 2
    /\ fetch.queried[1].answer = "status"
    /\ fetch.queried[2].candidates = 2

\* C33: a fetchSuggestions call of either source ends by returning, never by
\* throwing; what it returns is the empty list unless an endpoint answered
\* with a JSON body, so a network fault, a non-success status and a body that
\* is not JSON give the empty list, as does a JSON body of an unexpected form.
C33_NeverThrows ==
    fetch.pc = "done" =>
        /\ fetch.outcome.status = "returned"
        /\ fetch.queried # <<>>
        /\ fetch.outcome.value # <<>> =>
              fetch.queried[Len(fetch.queried)].answer = "json"
        /\ (\A i \in 1..Len(fetch.queried) : fetch.queried[i].answer # "json")
              => fetch.outcome.value = <<>>

C33_Witness ==
    /\ FetchReturned
    /\ fetch.source = "google"
    /\ fetch.queried[1].answer = "fault"
    /\ fetch.outcome.value = <<>>

EqualIgnoringCase(a, b) == ToLowerCase(a) = ToLowerCase(b)

\* C34: a list returned by fetchSuggestions holds no two phrases equal
\* ignoring case and at most maxResults entries, and every phrase of the
\* marketplace source starts, ignoring case, with the queried prefix.
C34_DedupedCappedPrefixed ==
    FetchReturned =>
        /\ \A i, j \in 1..Len(fetch.outcome.value) :
              i # j => ~EqualIgnoringCase(fetch.outcome.value[i].keyword,
                                          fetch.outcome.value[j].keyword)
        /\ Len(fetch.outcome.value) <= fetch.maxResults
        /\ fetch.source = "etsy" =>
              \A i \in 1..Len(fetch.outcome.value) :
                  StartsWith(ToLowerCase(fetch.outcome.value[i].keyword),
                             ToLowerCase(fetch.prefix))

(***************************************************************************)
(* Calls of the two normalizers on raw texts                               *)
(***************************************************************************)
\* The longest raw text a normalizer is called with.
MaxLen == 3

RawChars == {" ", "a", "A", "+", "HALF", "DIA"}

RawTexts == UNION { [1..n -> RawChars] : n \in 0..MaxLen }

NormalizerCalls ==
    { [pc |-> "call", fn |-> f, args |-> <<raw>>] :
        f \in {"sanitizeKeyword", "normalizeKeyword"}, raw \in RawTexts }

CallSanitizeKeyword ==
    /\ calc.pc = "call"
    /\ calc.fn = "sanitizeKeyword"
    /\ calc' = [ pc |-> "returned", fn |-> calc.fn, args |-> calc.args,
                 value |-> sanitizeKeyword(calc.args[1]) ]
    /\ UNCHANGED << cfg, stub, pipe, fetch, serp, scorer, pc >>
    /\ UNCHANGED runVars
    /\ UNCHANGED storeVars
    /\ UNCHANGED histVars

CallNormalizeKeyword ==
    /\ calc.pc = "call"
    /\ calc.fn = "normalizeKeyword"
    /\ calc' = [ pc |-> "returned", fn |-> calc.fn, args |-> calc.args,
                 value |-> normalizeKeyword(calc.args[1]) ]
    /\ UNCHANGED << cfg, stub, pipe, fetch, serp, scorer, pc >>
    /\ UNCHANGED runVars
    /\ UNCHANGED storeVars
    /\ UNCHANGED histVars

NormalizerInit ==
    /\ cfg = CHOOSE c \in Configs : TRUE
    /\ pc = "idle"
    /\ RunInit
    /\ StoreInit
    /\ scorer = NoScorer
    /\ stub = NoStub
    /\ calc \in NormalizerCalls
    /\ pipe = NoPipe
    /\ fetch = NoFetch
    /\ serp = NoSerp

NormalizerNext ==
    \/ CallSanitizeKeyword
    \/ CallNormalizeKeyword

NormalizerSpec == NormalizerInit /\ [][NormalizerNext]_vars

\* C35: when a normalizer has returned a phrase q, the same normalizer
\* called with q returns q.
C35_Idempotent ==
    (calc.pc = "returned" /\ calc.value # Null) =>
        /\ calc.fn = "sanitizeKeyword" => sanitizeKeyword(calc.value) = calc.value
        /\ calc.fn = "normalizeKeyword" => normalizeKeyword(calc.value) = calc.value

(***************************************************************************)
(* The network contexts of the sources                                     *)
(***************************************************************************)
\* createEtsySource and createGoogleSource await request.newContext and hand
\* the context to the constructor of the source: the sources that
\* buildSources has created are the sources whose context exists.
Contexts == SeqToSet(sources)

FetchedSources == {fetchLog[i][1] : i \in 1..Len(fetchLog)}

\* C36: the network context of a source exists only once a fetch has used
\* that source.
C36_LazyContexts == Contexts \subseteq FetchedSources

(***************************************************************************)
(* The totals a run reports                                                *)
(***************************************************************************)
\* The distinct phrases of the suggestions a run has handed to the Store
\* for source n.
PersistedPhrases(n) == {a.keyword : a \in {x \in accepted : x.source = n}}

\* C37: the statistics a run returns give a total that is the sum of the
\* counts of the two sources, and for each source a count that is the number
\* of distinct phrases the run has handed to the Store for it.
C37_BreakdownAddsUp ==
    Returned =>
        /\ result.stats.totalSuggestionsPersisted
              = result.stats.sourceBreakdown["etsy"] + result.stats.sourceBreakdown["google"]
        /\ \A n \in SourceNames :
              result.stats.sourceBreakdown[n] = Cardinality(PersistedPhrases(n))

C37_Witness ==
    /\ Returned
    /\ result.stats.sourceBreakdown["etsy"] >= 1
    /\ result.stats.sourceBreakdown["google"] >= 1
    /\ Len(dequeued) >= 2

\* The distinct phrases the table of keywords holds.
StoredPhrases == {r.keyword : r \in db.keywords}

\* C38: when a run that started on an empty database has returned, its total
\* is the number of rows of the table of suggestions and its number of unique
\* keywords is the number of distinct phrases of the table of keywords.
C38_TotalsAgreeWithStore ==
    Returned =>
        /\ result.stats.totalSuggestionsPersisted = Cardinality(db.autocomplete_suggestions)
        /\ result.stats.uniqueKeywordsDiscovered = Cardinality(StoredPhrases)

(***************************************************************************)
(* The breakdown of a snapshot                                             *)
(***************************************************************************)
DemandBreakdownSum(snapshot) ==
    FracAdd(FracAdd(snapshot.components.demand.trends,
                    snapshot.components.demand.reviewVelocity),
            snapshot.components.demand.favorites)

CompetitionBreakdownSum(snapshot) ==
    FracAdd(FracAdd(FracAdd(snapshot.components.competition.resultsCount,
                            snapshot.components.competition.adRatio),
                    snapshot.components.competition.dominance),
            snapshot.components.competition.priceDispersion)

\* C39: in every snapshot the demand score is the sum of the three demand
\* entries of the breakdown and the competition score is the sum of its four
\* competition entries.
C39_BreakdownSumsToScores ==
    \A i \in 1..Len(scorer.snapshots) :
        /\ scorer.snapshots[i].demandScore = DemandBreakdownSum(scorer.snapshots[i])
        /\ scorer.snapshots[i].competitionScore
              = CompetitionBreakdownSum(scorer.snapshots[i])

\* a snapshot whose weighted entries are not 0
C39_Witness ==
    \E i \in 1..Len(scorer.snapshots) :
        /\ scorer.snapshots[i].components.demand.favorites # <<0, 1>>
        /\ scorer.snapshots[i].components.demand.trends # <<0, 1>>
        /\ scorer.snapshots[i].components.competition.adRatio # <<0, 1>>
        /\ scorer.snapshots[i].components.competition.resultsCount # <<0, 1>>
        /\ scorer.snapshots[i].demandScore # scorer.snapshots[i].components.demand.trends

(***************************************************************************)
(* The search-results fetcher: fetchKeyword for one keyword, page by page, *)
(* and the save of its result                                              *)
(***************************************************************************)
\* let position = pageIdx * 48
PageStride == 48

\* The largest number of listing nodes on one result page.
MaxNodes == 49

\* The largest value of config.pages.
MaxPages == 2

\* The largest number of listing nodes looked at for one keyword.
MaxFetched == 52

\* A node the selector matches; a node can lack both id attributes.
Node(id) == [hasId |-> id # 0, listingId |-> id]

\* What a result page can hold: no listing, one, a full page, a page with one
\* listing more (advertisements are listings too), or a short page with a
\* repeated listing and a node without id.
PageContents(pageIdx) ==
    { [i \in 1..n |-> Node(100 * (pageIdx + 1) + i)] : n \in {0, 1, PageStride, MaxNodes} }
    \cup { << Node(1), Node(0), Node(1), Node(2) >> }

SerpListing(position, pageNumber, listingId) ==
    [ position |-> position, page |-> pageNumber, listingId |-> listingId,
      isAd |-> FALSE, title |-> Null, shop |-> Null, price |-> Null,
      reviewCount |-> Null, favorites |-> Null, url |-> Null ]

\* nodeList.forEach of extractListings
RECURSIVE ExtractLoop(_, _, _, _)
ExtractLoop(nodes, position, seen, pageIdx) ==
    IF nodes = <<>> THEN <<>>
    ELSE IF ~Head(nodes).hasId \/ Head(nodes).listingId \in seen
         THEN ExtractLoop(Tail(nodes), position, seen, pageIdx)
         ELSE << SerpListing(position + 1, pageIdx + 1, Head(nodes).listingId) >>
              \o ExtractLoop(Tail(nodes), position + 1,
                             seen \cup {Head(nodes).listingId}, pageIdx)

extractListings(nodes, pageIdx) == ExtractLoop(nodes, pageIdx * PageStride, {}, pageIdx)

SerpKeyword == <<"a", "b">>

\* the record fetchKeyword returns (capture_html off)
SerpRecord(listings, pages, now) ==
    [ keyword |-> SerpKeyword, listings |-> listings, rawHtml |-> <<>>,
      resultsCount |-> Null, topCards |-> <<>>, pagesFetched |-> pages,
      fetchedAt |-> now ]

\* The table of listings is empty, or holds the rows of an earlier fetch of
\* the keyword.
SerpDbs ==
    { EmptyDb,
      ExecAll(EmptyDb, SearchResultStatements(
          SerpRecord(extractListings(<< Node(1), Node(2) >>, 0), 1, 0))) }

SerpCalls ==
    { [pc |-> "page", pages |-> n, pageIndex |-> 0, nodes |-> 0, listings |-> <<>>,
       outcome |-> "none"] : n \in 1..MaxPages }

SerpUnchanged ==
    /\ UNCHANGED << cfg, stub, calc, pipe, fetch, pc, scorer >>
    /\ UNCHANGED runVars
    /\ UNCHANGED << tx, txQueue, call >>
    /\ UNCHANGED histVars

\* one iteration of the page loop of fetchKeyword
SerpPage ==
    /\ serp.pc = "page"
    /\ serp.pageIndex < serp.pages
    /\ \E nodes \in PageContents(serp.pageIndex) :
          /\ serp.nodes + Len(nodes) <= MaxFetched
          /\ serp' = [serp EXCEPT !.listings = @ \o extractListings(nodes, serp.pageIndex),
                                  !.nodes = @ + Len(nodes),
                                  !.pageIndex = @ + 1]
    /\ UNCHANGED << db, clock >>
    /\ SerpUnchanged

\* page.goto or waitForResults rejects: the catch block returns null
SerpPageFault ==
    /\ serp.pc = "page"
    /\ serp.pageIndex < serp.pages
    /\ serp' = [serp EXCEPT !.pc = "done", !.outcome = "null"]
    /\ UNCHANGED << db, clock >>
    /\ SerpUnchanged

\* the loop is over: fetchKeyword returns its record
SerpReturn ==
    /\ serp.pc = "page"
    /\ serp.pageIndex = serp.pages
    /\ serp' = [serp EXCEPT !.pc = "save"]
    /\ clock' = clock + 1
    /\ db' = db
    /\ SerpUnchanged

\* saveSearchResults with the record: BEGIN, the statements of the record,
\* COMMIT; a statement the database refuses leads to ROLLBACK and the fault
\* is thrown again
SerpSave ==
    /\ serp.pc = "save"
    /\ LET statements ==
               SearchResultStatements(SerpRecord(serp.listings, serp.pages, clock))
       IN  IF FirstFailure(db, statements) = 0
           THEN /\ db' = ExecAll(db, statements)
                /\ serp' = [serp EXCEPT !.pc = "done", !.outcome = "saved"]
           ELSE /\ db' = db
                /\ serp' = [serp EXCEPT !.pc = "done", !.outcome = "rejected"]
    /\ clock' = clock
    /\ SerpUnchanged

SerpInit ==
    /\ cfg = CHOOSE c \in Configs : TRUE
    /\ pc = "idle"
    /\ RunInit
    /\ db \in SerpDbs
    /\ tx = NoTx
    /\ txQueue = <<>>
    /\ clock = 1
    /\ call = NoCall
    /\ scorer = NoScorer
    /\ stub = NoStub
    /\ calc = NoCalc
    /\ pipe = NoPipe
    /\ fetch = NoFetch
    /\ serp \in SerpCalls

SerpNext ==
    \/ SerpPage
    \/ SerpPageFault
    \/ SerpReturn
    \/ SerpSave

SerpSpec == SerpInit /\ [][SerpNext]_vars

\* C40: the listings fetchKeyword has collected for its keyword have pairwise
\* distinct positions, and the save of its record is not refused.
C40_PositionsDistinct ==
    serp.pc # "none" =>
    /\ \A i, j \in 1..Len(serp.listings) :
          i # j => serp.listings[i].position # serp.listings[j].position
    /\ serp.outcome # "rejected"

====
